---- MODULE Spec2Model ----
(***************************************************************************)
(* A model of MCPServerManager (src/src/core/server.ts): the supervisor of *)
(* one child process, its readiness wait, its shutdown with escalation     *)
(* from SIGTERM to SIGKILL, and its lifecycle subscribers.                 *)
(*                                                                         *)
(* One action is one turn of the Node.js event loop as far as the manager  *)
(* is concerned: a call made by the test driver, the emission of a child   *)
(* process event with every listener it runs, the firing of a timer, or a  *)
(* promise continuation.  Time is counted in milliseconds and advances in  *)
(* steps of TimeStep; a timer holds the milliseconds left before it fires. *)
(*                                                                         *)
(* The other components have a specification each, under which the manager *)
(* does not move: HttpSpec for HTTPAdapter (src/src/adapters/transport/    *)
(* http.ts), SseSpec for the event-stream reader of openStream(),          *)
(* ToolSpec for what MCPTestClient.callTool() returns and throws,          *)
(* ClientSpec for its getResource() and getSchema(), and AsyncSpec for the *)
(* AsyncHelpers of src/src/utils/async.ts.                                 *)
(***************************************************************************)
EXTENDS Integers, Sequences, FiniteSets, TLC

---------------------------------------------------------------------------
(* Bounds of the model                                                     *)

\* The granularity of the clock, in milliseconds.
TimeStep == 500

\* options.startupTimeout ranges over TimeStep .. MaxStartupSteps * TimeStep.
MaxStartupSteps == 3

\* options.shutdownTimeout ranges over TimeStep .. MaxShutdownSteps * TimeStep.
MaxShutdownSteps == 2

\* The longest time a child takes to die of SIGKILL, in clock steps.
MaxKillLatencySteps == 1

\* The number of subscribers registered over a run, all kinds together.
MaxSubs == 2

\* The number of child processes spawned over a run.
MaxSpawns == 2

\* The number of calls made on one HTTPAdapter over a run.
MaxCalls == 2

\* The adapter's timeout ranges over TimeStep .. MaxHttpTimeoutSteps * TimeStep.
MaxHttpTimeoutSteps == 2

\* The number of lines of a body read by openStream().
MaxLines == 4

\* The number of words of the message of an error thrown to callTool().
MaxWords == 2

---------------------------------------------------------------------------
(* Program constants                                                       *)

\* The cap of the readiness grace window: Math.min(startupTimeout, 1000).
GraceWindowMs == 1000

---------------------------------------------------------------------------
(* Values                                                                  *)

StartupTimeouts == { k * TimeStep : k \in 1..MaxStartupSteps }

ShutdownTimeouts == { k * TimeStep : k \in 1..MaxShutdownSteps }

KillLatency == MaxKillLatencySteps * TimeStep

\* The exit codes a child reports: 0, a failure code, or null (killed by a
\* signal).
ExitCodes == {"0", "1", "null"}

\* The two callers of stop(): the test driver ("pub") and the cleanup of a
\* failed start() ("int", server.ts line 157).
Slots == {"pub", "int"}

\* A timer that is not armed.
Unarmed == 0 - 1

Min(a, b) == IF a <= b THEN a ELSE b

Max(a, b) == IF a >= b THEN a ELSE b

\* An error value: its class, the class of the error it wraps (its `cause`)
\* and what its message says.
Err(type, cause, msg) == [type |-> type, cause |-> cause, msg |-> msg]

NoErr == Err("none", "none", "none")

\* The ChildProcess before any spawn.
NoChild ==
  [ pid         |-> FALSE,    \* child.pid is a number
    alive       |-> FALSE,    \* the operating system process runs
    exitCode    |-> "null",   \* child.exitCode
    signalCode  |-> "null",   \* child.signalCode
    killed      |-> FALSE,    \* child.killed: a kill() delivered a signal
    errPending  |-> FALSE,    \* a failed spawn whose 'error' is due next tick
    ignoresTerm |-> FALSE,    \* the program installs a no-op SIGTERM handler
    termSent    |-> FALSE,
    killSent    |-> FALSE ]

VARIABLES
  options,     \* this.options: [startupTimeout, shutdownTimeout]
  serialized,  \* the driver awaits each lifecycle call before the next
  m,           \* the manager, its child, its timers and its promises
  lastAction,  \* the step just taken: [op, arg]
  http,        \* an HTTPAdapter, its calls and their timers
  sse,         \* a body read by openStream(), and what was yielded of it
  tool,        \* a callTool() call: what it caught and what it threw
  testClient,  \* a getResource() or getSchema() call of MCPTestClient
  helper       \* a call of one of the AsyncHelpers

vars == <<options, serialized, m, lastAction, http, sse, tool, testClient, helper>>

Step(op, arg) == [op |-> op, arg |-> arg]

\* The manager after construction (server.ts lines 46-51 and 68-81), no
\* call made yet.
InitManager ==
  [ process        |-> "null",     \* this.process: "null" or "child"
    child          |-> NoChild,    \* the ChildProcess last spawned
    isAlive        |-> FALSE,      \* this.isAlive
    startCallbacks |-> <<>>,
    stopCallbacks  |-> <<>>,
    errorCallbacks |-> <<>>,
    exitListeners  |-> <<>>,       \* child's 'exit' listeners, in order
    errorListeners |-> <<>>,       \* child's 'error' listeners, in order
    graceTimer     |-> Unarmed,    \* waitForReady's `timer`
    startupTimer   |-> Unarmed,    \* waitForReady's `startupTimeoutTimer`
    killTimer      |-> [s \in Slots |-> Unarmed],   \* stop's `killTimeout`
    killCountdown  |-> Unarmed,    \* time left to a SIGKILLed child
    wfr            |-> "none",     \* the promise of waitForReady()
    wfrErr         |-> NoErr,
    startCall      |-> "idle",     \* the promise of the last start()
    startErr       |-> NoErr,
    startNoop      |-> FALSE,      \* the last start() returned at line 102
    stopCall       |-> [s \in Slots |-> "idle"],   \* the promises of stop()
    restartCall    |-> "idle",     \* the promise of restart(): "idle",
                                   \* "stopping", "starting", then settled
    restartErr     |-> NoErr,
    catchPending   |-> FALSE,      \* line 156's handler is queued
    callerWoken    |-> FALSE,      \* the driver's continuation is queued too
    log            |-> <<>>,       \* the subscribers invoked by this step
    throwing       |-> {},         \* those of them that throw when invoked
    console        |-> <<>>,       \* what this step wrote with console.error
    spawned        |-> 0,          \* children spawned so far
    orphans        |-> 0,          \* live children no ChildProcess refers to
    wfrElapsed     |-> 0,          \* ms since waitForReady() was called
    stopElapsed    |-> [s \in Slots |-> 0],  \* ms since stop() was called
    stopOnLive     |-> [s \in Slots |-> FALSE] ]  \* child alive at that call

\* No adapter, no stream and no tool call: the manager is all there is.
NoHttp == [calls |-> <<>>]

NoSse == [body |-> <<>>]

NoTool == [phase |-> "none"]

NoClient == [method |-> "none"]

NoHelper == [fn |-> "none"]

Init ==
  /\ options \in [startupTimeout : StartupTimeouts,
                  shutdownTimeout : ShutdownTimeouts]
  /\ serialized \in BOOLEAN
  /\ m = InitManager
  /\ lastAction = Step("init", "none")
  /\ http = NoHttp
  /\ sse = NoSse
  /\ tool = NoTool
  /\ testClient = NoClient
  /\ helper = NoHelper

\* No manager: what the variables of the manager are under the
\* specifications of the other components.
NoManager ==
  /\ options = [startupTimeout |-> TimeStep, shutdownTimeout |-> TimeStep]
  /\ serialized = TRUE
  /\ m = InitManager
  /\ lastAction = Step("init", "none")

---------------------------------------------------------------------------
(* isRunning(), lines 262-264                                              *)

IsRunningOf(s) == s.isAlive /\ s.process # "null" /\ s.child.pid

IsRunning == IsRunningOf(m)

\* The children the operating system runs on behalf of this manager.
LiveChildren(s) == s.orphans + (IF s.child.alive THEN 1 ELSE 0)

---------------------------------------------------------------------------
(* Subscribers                                                             *)

\* A notify loop that runs through its list from the end.
NotifyLoop_Backwards(cbs, kind, err) ==
  [i \in 1..Len(cbs) |->
     [kind |-> kind, cb |-> cbs[Len(cbs) + 1 - i], err |-> err]]

\* One pass of a notify loop (lines 408-414, 430-436, 456-462): every
\* callback of the list, in list order, each once.
NotifyLoop(cbs, kind, err) ==
  [i \in 1..Len(cbs) |-> [kind |-> kind, cb |-> cbs[i], err |-> err]]

\* The catch block of a notify loop (lines 411-413, 433-435, 459-461): one
\* console.error for every callback of the pass that threw.
Caught(s, cbs, kind) ==
  LET thrown == SelectSeq(cbs, LAMBDA cb : <<kind, cb>> \in s.throwing)
  IN [i \in 1..Len(thrown) |-> [kind |-> kind, cb |-> thrown[i]]]

\* The callbacks a loop without try/catch invokes: up to the first that
\* throws.
UpToThrow(s, cbs, kind) ==
  LET first == {i \in 1..Len(cbs) : <<kind, cbs[i]>> \in s.throwing}
  IN IF first = {} THEN cbs
     ELSE SubSeq(cbs, 1, CHOOSE i \in first : \A j \in first : i <= j)

notifyStart(s) ==
  [s EXCEPT !.log = s.log \o NotifyLoop(s.startCallbacks, "start", "none"),
            !.console = s.console \o Caught(s, s.startCallbacks, "start")]

\* notifyStop() whose loop has no try/catch.
notifyStop_Uncaught(s) ==
  [s EXCEPT !.log = s.log \o NotifyLoop(UpToThrow(s, s.stopCallbacks, "stop"),
                                        "stop", "none")]

notifyStop(s) ==
  [s EXCEPT !.log = s.log \o NotifyLoop(s.stopCallbacks, "stop", "none"),
            !.console = s.console \o Caught(s, s.stopCallbacks, "stop")]

notifyError(s, err) ==
  [s EXCEPT !.log = s.log \o NotifyLoop(s.errorCallbacks, "error", err),
            !.console = s.console \o Caught(s, s.errorCallbacks, "error")]

---------------------------------------------------------------------------
(* Promises                                                                *)

\* reject() of start()'s promise; a settled promise stays as it is.
RejectStart(s, e) ==
  IF s.startCall = "pending"
  THEN [s EXCEPT !.startCall = "rejected", !.startErr = e,
                 !.callerWoken = TRUE]
  ELSE s

\* resolve() of start()'s promise.
ResolveStart(s) ==
  IF s.startCall = "pending"
  THEN [s EXCEPT !.startCall = "resolved", !.callerWoken = TRUE]
  ELSE s

\* reject() of waitForReady()'s promise: the first rejection queues the
\* .catch handler of line 156.
RejectWfr(s, e) ==
  IF s.wfr = "pending"
  THEN [s EXCEPT !.wfr = "rejected", !.wfrErr = e, !.catchPending = TRUE]
  ELSE s

\* The .then handler of lines 150-155.
WfrThen(s) == ResolveStart(notifyStart([s EXCEPT !.isAlive = TRUE]))

\* resolve() of waitForReady()'s promise, with the .then handler it runs.
ResolveWfr(s) ==
  IF s.wfr = "pending"
  THEN WfrThen([s EXCEPT !.wfr = "resolved"])
  ELSE s

\* The .finally handler of lines 157-161, run when the cleanup stop() has
\* resolved.
StopFinally(s) ==
  RejectStart(s, Err("ServerStartError", s.wfrErr.type, "failed to start"))

---------------------------------------------------------------------------
(* The child process                                                       *)

\* child.kill(sig) as lines 203 and 479 call it: a live child takes the
\* signal and child.killed becomes true; a child that has exited, or never
\* ran, takes nothing and no event follows.  SIGKILL ends the child within
\* KillLatency.
Signal(s, sig) ==
  IF ~s.child.alive THEN s
  ELSE IF sig = "SIGTERM"
  THEN [s EXCEPT !.child.killed = TRUE, !.child.termSent = TRUE]
  ELSE [s EXCEPT !.child.killed = TRUE, !.child.killSent = TRUE,
                 !.killCountdown =
                    IF s.child.killSent THEN s.killCountdown ELSE KillLatency]

\* killProcess(), lines 477-481.
killProcess(s) ==
  IF s.process # "null" /\ s.child.pid THEN Signal(s, "SIGTERM") ELSE s

\* The callback of killTimeout sending SIGTERM a second time.
KillTimeoutCallback_Term(s) ==
  IF s.process # "null" /\ s.child.pid THEN Signal(s, "SIGTERM") ELSE s

\* The callback of killTimeout, lines 200-205.
KillTimeoutCallback(s) ==
  IF s.process # "null" /\ s.child.pid THEN Signal(s, "SIGKILL") ELSE s

\* spawn() at lines 108-111 when it returns a ChildProcess: with a pid and
\* a running process ("ok"), or with neither and an 'error' event due on the
\* next tick ("enoent").  A live child the manager referred to before is
\* left running with nothing referring to it.
Spawn(s, outcome, ign) ==
  [s EXCEPT
     !.process = "child",
     !.child = [NoChild EXCEPT !.pid = (outcome = "ok"),
                               !.alive = (outcome = "ok"),
                               !.errPending = (outcome = "enoent"),
                               !.ignoresTerm = (ign /\ outcome = "ok")],
     !.orphans = LiveChildren(s),
     !.killCountdown = Unarmed,
     !.spawned = s.spawned + 1,
     !.exitListeners = <<>>,
     !.errorListeners = <<>>]

\* this.process.on('error', ...) and this.process.on('exit', ...), lines
\* 126 and 135.
SetHandlers(s) ==
  [s EXCEPT !.errorListeners = Append(s.errorListeners, "start.error"),
            !.exitListeners = Append(s.exitListeners, "start.exit")]

---------------------------------------------------------------------------
(* stop(), lines 191-227                                                   *)

\* exitHandler, lines 208-213, of the stop() made by `slot`; the cleanup
\* stop()'s resolution runs the .finally handler of start().
StopExitHandler(s, slot) ==
  LET s1 == [s EXCEPT !.killTimer[slot] = Unarmed,
                      !.process = "null",
                      !.isAlive = FALSE,
                      !.stopCall[slot] = "resolved",
                      !.stopElapsed[slot] = 0,
                      !.stopOnLive[slot] = FALSE]
  IN IF slot = "int" THEN StopFinally(s1)
     ELSE [s1 EXCEPT !.callerWoken = TRUE]

\* The test of line 216: "if process is already exited".
AlreadyExited(s) == s.process = "null" \/ ~s.child.pid

\* stop() made by `slot`.
Stop(s, slot) ==
  IF s.process = "null"
  THEN \* line 193
       LET s1 == [s EXCEPT !.stopCall[slot] = "resolved"]
       IN IF slot = "int" THEN StopFinally(s1) ELSE s1
  ELSE LET s1 == [s EXCEPT !.stopCall[slot] = "pending",
                           !.killTimer[slot] = options.shutdownTimeout,
                           !.stopElapsed[slot] = 0,
                           !.stopOnLive[slot] = s.child.alive]
       IN IF AlreadyExited(s1)
          THEN StopExitHandler(s1, slot)
          ELSE killProcess(
                 [s1 EXCEPT !.exitListeners = Append(s1.exitListeners, slot)])

---------------------------------------------------------------------------
(* waitForReady(), lines 284-337                                           *)

\* A grace window that outlasts the startup timeout.
GraceWindow_AfterStartup == options.startupTimeout + TimeStep

\* The length of the grace window, line 298.
GraceWindow == Min(options.startupTimeout, GraceWindowMs)

\* The grace timer's test without `!this.process.killed`.
StillAlive_IgnoresKilled(s) ==
  s.process # "null" /\ s.child.exitCode = "null"

\* The test the grace timer makes, line 293.
StillAlive(s) ==
  s.process # "null" /\ ~s.child.killed /\ s.child.exitCode = "null"

\* A grace timer that resolves the wait or leaves it to the later timer.
GraceCallback_ResolveOnly(s) ==
  LET s1 == [s EXCEPT !.graceTimer = Unarmed]
  IN IF StillAlive(s1) THEN ResolveWfr(s1) ELSE s1

\* The callback of `timer`, lines 291-298.
GraceCallback(s) ==
  LET s1 == [s EXCEPT !.graceTimer = Unarmed]
  IN IF StillAlive(s1)
     THEN ResolveWfr(s1)
     ELSE RejectWfr(s1, Err("ServerStartError", "none",
                            "exited or failed to start quickly"))

\* The callback of `startupTimeoutTimer`, lines 311-316.
StartupTimeoutCallback(s) ==
  RejectWfr(
    [s EXCEPT !.startupTimer = Unarmed,
              !.graceTimer = Unarmed,
              !.exitListeners =
                 SelectSeq(s.exitListeners, LAMBDA l : l # "wfr.exitHandler"),
              !.errorListeners =
                 SelectSeq(s.errorListeners, LAMBDA l : l # "wfr.errorHandler")],
    Err("TimeoutError", "none", "did not become ready"))

\* waitForReady() up to its return: both timers armed, four listeners set.
waitForReady(s) ==
  [s EXCEPT
     !.wfr = "pending",
     !.wfrErr = NoErr,
     !.wfrElapsed = 0,
     !.graceTimer = GraceWindow,
     !.startupTimer = options.startupTimeout,
     !.exitListeners =
        IF s.process = "null" THEN s.exitListeners
        ELSE s.exitListeners \o <<"wfr.exit", "wfr.exitHandler">>,
     !.errorListeners =
        IF s.process = "null" THEN s.errorListeners
        ELSE s.errorListeners \o <<"wfr.error", "wfr.errorHandler">>]

---------------------------------------------------------------------------
(* Listeners of the child's events                                         *)

\* The exit handler of start() leaving isAlive as it is.
ExitListener_StaysAlive(s, l, code) ==
  CASE l = "start.exit" ->
         LET s1 == notifyStop(s)
         IN IF code # "0" /\ code # "null"
            THEN notifyError(s1, "ExitCodeError")
            ELSE s1
    [] l = "wfr.exit" ->
         RejectWfr([s EXCEPT !.graceTimer = Unarmed],
                   Err("ServerStartError", "none", "exited prematurely"))
    [] l = "wfr.exitHandler" ->
         RejectWfr([s EXCEPT !.startupTimer = Unarmed],
                   Err("ServerStartError", "none", "exited prematurely"))
    [] OTHER -> StopExitHandler(s, l)

\* The listeners of waitForReady() clearing their timers without rejecting.
ExitListener_NoEarlyReject(s, l, code) ==
  CASE l = "start.exit" ->
         LET s1 == notifyStop([s EXCEPT !.isAlive = FALSE])
         IN IF code # "0" /\ code # "null"
            THEN notifyError(s1, "ExitCodeError")
            ELSE s1
    [] l = "wfr.exit" -> [s EXCEPT !.graceTimer = Unarmed]
    [] l = "wfr.exitHandler" -> [s EXCEPT !.startupTimer = Unarmed]
    [] OTHER -> StopExitHandler(s, l)

\* The exit handler of start() testing `code !== 0` alone.
ExitListener_NullIsError(s, l, code) ==
  CASE l = "start.exit" ->
         LET s1 == notifyStop([s EXCEPT !.isAlive = FALSE])
         IN IF code # "0"
            THEN notifyError(s1, "ExitCodeError")
            ELSE s1
    [] l = "wfr.exit" ->
         RejectWfr([s EXCEPT !.graceTimer = Unarmed],
                   Err("ServerStartError", "none", "exited prematurely"))
    [] l = "wfr.exitHandler" ->
         RejectWfr([s EXCEPT !.startupTimer = Unarmed],
                   Err("ServerStartError", "none", "exited prematurely"))
    [] OTHER -> StopExitHandler(s, l)

\* The exit handler of start() spawning the command again after a failure.
ExitListener_AutoRestart(s, l, code) ==
  CASE l = "start.exit" ->
         LET s1 == notifyStop([s EXCEPT !.isAlive = FALSE])
         IN IF code # "0" /\ code # "null"
            THEN [SetHandlers(Spawn(notifyError(s1, "ExitCodeError"),
                                    "ok", FALSE))
                    EXCEPT !.isAlive = TRUE]
            ELSE s1
    [] l = "wfr.exit" ->
         RejectWfr([s EXCEPT !.graceTimer = Unarmed],
                   Err("ServerStartError", "none", "exited prematurely"))
    [] l = "wfr.exitHandler" ->
         RejectWfr([s EXCEPT !.startupTimer = Unarmed],
                   Err("ServerStartError", "none", "exited prematurely"))
    [] OTHER -> StopExitHandler(s, l)

\* One 'exit' listener, run with the exit code.
ExitListener(s, l, code) ==
  CASE l = "start.exit" ->
         \* lines 135-146
         LET s1 == notifyStop([s EXCEPT !.isAlive = FALSE])
         IN IF code # "0" /\ code # "null"
            THEN notifyError(s1, "ExitCodeError")
            ELSE s1
    [] l = "wfr.exit" ->
         \* lines 301-304
         RejectWfr([s EXCEPT !.graceTimer = Unarmed],
                   Err("ServerStartError", "none", "exited prematurely"))
    [] l = "wfr.exitHandler" ->
         \* lines 318-321
         RejectWfr([s EXCEPT !.startupTimer = Unarmed],
                   Err("ServerStartError", "none", "exited prematurely"))
    [] OTHER -> StopExitHandler(s, l)

\* One 'error' listener.
ErrorListener(s, l) ==
  CASE l = "start.error" ->
         \* lines 126-132: reject(error) passes the error as it came
         RejectStart(
           notifyError([s EXCEPT !.isAlive = FALSE], "ServerStartError"),
           Err("Error", "none", "spawn"))
    [] l = "wfr.error" ->
         \* lines 305-308
         RejectWfr([s EXCEPT !.graceTimer = Unarmed],
                   Err("ServerStartError", "none", "failed to spawn"))
    [] OTHER ->
         \* lines 322-325
         RejectWfr([s EXCEPT !.startupTimer = Unarmed],
                   Err("ServerStartError", "none", "failed to spawn"))

RECURSIVE EmitExit(_, _, _)
\* emit('exit', code): the listeners registered at that moment, in
\* registration order.
EmitExit(s, ls, code) ==
  IF ls = <<>> THEN s
  ELSE EmitExit(ExitListener(s, Head(ls), code), Tail(ls), code)

RECURSIVE EmitError(_, _)
\* emit('error', err).
EmitError(s, ls) ==
  IF ls = <<>> THEN s
  ELSE EmitError(ErrorListener(s, Head(ls)), Tail(ls))

\* Listeners set with on() stay; those set with once() are gone once run.
Persistent(l) == l \in {"start.exit", "start.error"}

---------------------------------------------------------------------------
(* start(), lines 100-173                                                  *)

\* start() that never takes the early return of line 102.
AlreadyStarted_Never(s) == FALSE

\* The test of line 101: a handle is held.
AlreadyStarted(s) == s.process # "null"

\* start().  `outcome` is what spawn() does: "ok", "enoent", or "throw" (it
\* throws before this.process is assigned); `ign` is whether the program
\* spawned ignores SIGTERM.
Start(s, outcome, ign) ==
  LET s0 == [s EXCEPT !.startCall = "pending", !.startErr = NoErr,
                      !.startNoop = FALSE]
  IN IF AlreadyStarted(s)
     THEN [s0 EXCEPT !.startCall = "resolved", !.startNoop = TRUE]
     ELSE IF outcome = "throw"
     THEN \* lines 163-167
          RejectStart(s0, Err("ServerStartError", "Error", "failed to start"))
     ELSE waitForReady(SetHandlers(Spawn(s0, outcome, ign)))

\* The .catch handler of lines 156-162: the cleanup stop().
WfrCatchHandler(s) == Stop([s EXCEPT !.catchPending = FALSE], "int")

---------------------------------------------------------------------------
(* The event loop                                                          *)

\* Promise continuations run before the next timer or child event.
MicrotaskWindow(s) == s.catchPending \/ s.child.errPending

\* A timer has run out.  The clock stands for the instants up to the next
\* step of TimeStep: what happens between two steps happens before the
\* timers that run out at the second.
TimerDue(s) ==
  \/ s.graceTimer = 0
  \/ s.startupTimer = 0
  \/ \E slot \in Slots : s.killTimer[slot] = 0

\* The driver's continuation is one of them, and it makes one call at most.
\* restart() at `await this.start()`, line 244: it settles as that start()
\* settles.
RestartAwait(s) ==
  IF s.restartCall = "starting" /\ s.startCall \in {"resolved", "rejected"}
  THEN [s EXCEPT !.restartCall = s.startCall, !.restartErr = s.startErr]
  ELSE s

Settle(s) ==
  RestartAwait([s EXCEPT !.callerWoken = s.callerWoken /\ s.catchPending,
                         !.throwing = {}])

AfterCall(s) == RestartAwait([s EXCEPT !.callerWoken = FALSE])

\* A lifecycle call of the driver is outstanding.
CallPending(s) ==
  \/ s.startCall = "pending"
  \/ s.stopCall["pub"] = "pending"
  \/ s.restartCall = "stopping"

\* The driver may make a lifecycle call now.
DriverMayCall ==
  /\ ~m.child.errPending
  /\ ~TimerDue(m)
  /\ m.catchPending => m.callerWoken
  /\ serialized => ~CallPending(m)
  /\ m.restartCall # "stopping"

Fresh(s) == [s EXCEPT !.log = <<>>, !.console = <<>>]

\* The subscribers registered, each a kind and a callback.
Subscribers(s) ==
  {<<"start", cb>> : cb \in {s.startCallbacks[i] : i \in 1..Len(s.startCallbacks)}}
  \cup {<<"stop", cb>> : cb \in {s.stopCallbacks[i] : i \in 1..Len(s.stopCallbacks)}}
  \cup {<<"error", cb>> : cb \in {s.errorCallbacks[i] : i \in 1..Len(s.errorCallbacks)}}

\* A step of the event loop in which the subscribers `th` throw when they
\* are invoked.
Invoking(s, th) == [Fresh(s) EXCEPT !.throwing = th]

Subscribed(s) ==
  Len(s.startCallbacks) + Len(s.stopCallbacks) + Len(s.errorCallbacks)

\* The driver has made no lifecycle call yet.
Setup(s) ==
  /\ s.startCall = "idle"
  /\ s.stopCall["pub"] = "idle"
  /\ s.restartCall = "idle"

\* onStart(cb), onStop(cb), onError(cb), lines 354-394: push(cb).  The
\* driver registers its subscribers before its first lifecycle call, and the
\* callbacks of a kind are numbered as they are registered.
Subscribe(kind) ==
  /\ Setup(m)
  /\ Subscribed(m) < MaxSubs
  /\ LET s == Fresh(m)
     IN m' = CASE kind = "start" ->
                   [s EXCEPT !.startCallbacks =
                      Append(s.startCallbacks, Len(s.startCallbacks) + 1)]
               [] kind = "stop" ->
                   [s EXCEPT !.stopCallbacks =
                      Append(s.stopCallbacks, Len(s.stopCallbacks) + 1)]
               [] OTHER ->
                   [s EXCEPT !.errorCallbacks =
                      Append(s.errorCallbacks, Len(s.errorCallbacks) + 1)]
  /\ lastAction' = Step("subscribe", kind)
  /\ UNCHANGED <<options, serialized, http, sse, tool, testClient, helper>>

\* The driver calls start().
CallStart ==
  /\ DriverMayCall
  /\ m.startCall # "pending"
  /\ \E outcome \in {"ok", "enoent", "throw"}, ign \in BOOLEAN :
       /\ AlreadyStarted(m) => (outcome = "ok" /\ ~ign)
       /\ outcome # "ok" => ~ign
       /\ ~AlreadyStarted(m) => m.spawned < MaxSpawns
       /\ m' = AfterCall(Start(Fresh([m EXCEPT !.restartCall = "idle",
                                           !.restartErr = NoErr]),
                               outcome, ign))
  /\ lastAction' = Step("start", "driver")
  /\ UNCHANGED <<options, serialized, http, sse, tool, testClient, helper>>

\* The driver calls stop().
CallStop ==
  /\ DriverMayCall
  /\ m.stopCall["pub"] # "pending"
  /\ m' = AfterCall(Stop(Fresh(IF m.restartCall = "starting" THEN m
                               ELSE [m EXCEPT !.restartCall = "idle",
                                              !.restartErr = NoErr]), "pub"))
  /\ lastAction' = Step("stop", "driver")
  /\ UNCHANGED <<options, serialized, http, sse, tool, testClient, helper>>

\* restart() that calls start() without awaiting its stop().
CallRestart_NoAwait ==
  /\ DriverMayCall
  /\ ~CallPending(m)
  /\ m' = AfterCall(Start(Stop(Fresh([m EXCEPT !.restartCall = "starting",
                                                !.restartErr = NoErr]), "pub"),
                          "ok", FALSE))
  /\ lastAction' = Step("start", "restart")
  /\ UNCHANGED <<options, serialized, http, sse, tool, testClient, helper>>

\* The driver calls restart(), lines 242-245: up to `await this.stop()`.
CallRestart ==
  /\ DriverMayCall
  /\ ~CallPending(m)
  /\ m' = AfterCall(Stop(Fresh([m EXCEPT !.restartCall = "stopping",
                                          !.restartErr = NoErr]), "pub"))
  /\ lastAction' = Step("restart", "driver")
  /\ UNCHANGED <<options, serialized, http, sse, tool, testClient, helper>>

\* restart() after its stop() has resolved: `await this.start()`.
RestartContinue ==
  /\ m.restartCall = "stopping"
  /\ m.stopCall["pub"] = "resolved"
  /\ ~MicrotaskWindow(m)
  /\ ~TimerDue(m)
  /\ \E outcome \in {"ok", "enoent", "throw"}, ign \in BOOLEAN :
       /\ AlreadyStarted(m) => (outcome = "ok" /\ ~ign)
       /\ outcome # "ok" => ~ign
       /\ ~AlreadyStarted(m) => m.spawned < MaxSpawns
       /\ m' = AfterCall(Start(Fresh([m EXCEPT !.restartCall = "starting"]),
                               outcome, ign))
  /\ lastAction' = Step("start", "restart")
  /\ UNCHANGED <<options, serialized, http, sse, tool, testClient, helper>>

\* The 'error' event of a failed spawn, on the tick after spawn().
SpawnErrorStep(s, th) ==
  LET s1 == Invoking([s EXCEPT !.child.errPending = FALSE,
                               !.child.exitCode = "-2"], th)
      s2 == EmitError(s1, s1.errorListeners)
  IN Settle([s2 EXCEPT !.errorListeners =
                          SelectSeq(s2.errorListeners, Persistent)])

SpawnError ==
  /\ m.child.errPending
  /\ \E th \in SUBSET Subscribers(m) : m' = SpawnErrorStep(m, th)
  /\ lastAction' = Step("error", "spawn")
  /\ UNCHANGED <<options, serialized, http, sse, tool, testClient, helper>>

\* The child may exit now: a child that ignores SIGTERM outlives it, and a
\* child that was sent SIGKILL dies of it.
MayExit(s, code) ==
  /\ s.child.alive
  /\ (s.child.ignoresTerm /\ s.child.termSent) => s.child.killSent
  /\ s.child.killSent => code = "null"

\* What the 'exit' event of the child does to the manager.
ChildExitStep(s, code, th) ==
  LET s1 == Invoking([s EXCEPT !.child.alive = FALSE,
                               !.child.exitCode = code,
                               !.child.signalCode =
                                  IF code = "null" THEN "SIG" ELSE "null",
                               !.child.ignoresTerm = FALSE,
                               !.child.termSent = FALSE,
                               !.child.killSent = FALSE,
                               !.killCountdown = Unarmed], th)
      s2 == EmitExit(s1, s1.exitListeners, code)
  IN Settle([s2 EXCEPT !.exitListeners =
                          SelectSeq(s2.exitListeners, Persistent)])

\* The child exits and its 'exit' event is emitted.
ChildExit(code) ==
  /\ ~MicrotaskWindow(m)
  /\ ~TimerDue(m)
  /\ MayExit(m, code)
  /\ \E th \in SUBSET Subscribers(m) : m' = ChildExitStep(m, code, th)
  /\ lastAction' = Step("exit", code)
  /\ UNCHANGED <<options, serialized, http, sse, tool, testClient, helper>>

\* Timers of equal expiry fire in the order they were armed, so `timer`
\* fires before `startupTimeoutTimer`.
GraceTimerStep(s, th) == Settle(GraceCallback(Invoking(s, th)))

GraceTimerFires ==
  /\ ~MicrotaskWindow(m)
  /\ m.graceTimer = 0
  /\ \E th \in SUBSET Subscribers(m) : m' = GraceTimerStep(m, th)
  /\ lastAction' = Step("timer", "grace")
  /\ UNCHANGED <<options, serialized, http, sse, tool, testClient, helper>>

StartupTimerFires ==
  /\ ~MicrotaskWindow(m)
  /\ m.startupTimer = 0
  /\ m.graceTimer # 0
  /\ m' = Settle(StartupTimeoutCallback(Fresh(m)))
  /\ lastAction' = Step("timer", "startup")
  /\ UNCHANGED <<options, serialized, http, sse, tool, testClient, helper>>

KillTimerFires(slot) ==
  /\ ~MicrotaskWindow(m)
  /\ m.killTimer[slot] = 0
  /\ m' = Settle(KillTimeoutCallback(Fresh([m EXCEPT !.killTimer[slot] = Unarmed])))
  /\ lastAction' = Step("timer", slot)
  /\ UNCHANGED <<options, serialized, http, sse, tool, testClient, helper>>

\* The .catch handler of start() runs.
WfrCatch ==
  /\ m.catchPending
  /\ ~m.child.errPending
  /\ m' = Settle(WfrCatchHandler(Fresh(m)))
  /\ lastAction' = Step("catch", "start")
  /\ UNCHANGED <<options, serialized, http, sse, tool, testClient, helper>>

---------------------------------------------------------------------------
(* Time                                                                    *)

Countdown(t) == IF t = Unarmed THEN Unarmed ELSE Max(0, t - TimeStep)

\* The elapsed times are recorded up to these.
WfrElapsedCap == options.startupTimeout

StopElapsedCap == options.shutdownTimeout + KillLatency + TimeStep

\* Something is due before the clock may advance.
Due(s) == TimerDue(s) \/ s.killCountdown = 0

Elapse(s) ==
  [s EXCEPT
     !.graceTimer = Countdown(s.graceTimer),
     !.startupTimer = Countdown(s.startupTimer),
     !.killTimer = [slot \in Slots |-> Countdown(s.killTimer[slot])],
     !.killCountdown = Countdown(s.killCountdown),
     !.wfrElapsed =
        IF s.wfr = "none" THEN s.wfrElapsed
        ELSE Min(WfrElapsedCap, s.wfrElapsed + TimeStep),
     !.stopElapsed =
        [slot \in Slots |->
           IF s.stopCall[slot] # "pending" THEN s.stopElapsed[slot]
           ELSE Min(StopElapsedCap, s.stopElapsed[slot] + TimeStep)]]

\* TimeStep milliseconds pass: nothing is due, and no continuation waits.
Tick ==
  /\ ~MicrotaskWindow(m)
  /\ ~Due(m)
  /\ Elapse(Fresh(m)) # Fresh(m)
  /\ m' = Elapse(Fresh(m))
  /\ lastAction' = Step("tick", "none")
  /\ UNCHANGED <<options, serialized, http, sse, tool, testClient, helper>>

---------------------------------------------------------------------------
(* Specifications                                                          *)

Driver ==
  \/ \E kind \in {"start", "stop", "error"} : Subscribe(kind)
  \/ CallStart
  \/ CallStop
  \/ CallRestart

EventLoop ==
  \/ RestartContinue
  \/ SpawnError
  \/ GraceTimerFires
  \/ StartupTimerFires
  \/ \E slot \in Slots : KillTimerFires(slot)
  \/ WfrCatch
  \/ Tick

\* The exit the operating system owes after SIGKILL.
KilledExit == m.child.killSent /\ ChildExit("null")

Next ==
  \/ Driver
  \/ EventLoop
  \/ \E code \in ExitCodes : ChildExit(code)

Spec == Init /\ [][Next]_vars

\* The event loop runs what is due, time passes, and a child sent SIGKILL
\* dies; the driver and a child left alone owe nothing.
FairSpec == Spec /\ WF_vars(EventLoop) /\ WF_vars(KilledExit)

---------------------------------------------------------------------------
(* Properties of start(), stop() and waitForReady()                        *)

\* The event loop has nothing left to run and owes the manager no exit.
Quiescent == ~ENABLED EventLoop /\ ~ENABLED KilledExit

\* The outstanding start() spawned a child that exited before the grace
\* timer fired.
ExitedEarly ==
  /\ m.startCall # "idle"
  /\ ~m.startNoop
  /\ m.wfrErr.msg = "exited prematurely"

\* C1: when the spawned command exits before the grace window ends,
\* start() rejects with a ServerStartError and holds no handle afterwards:
\* once the event loop has nothing left to run, that rejection has happened.
C1_EarlyExitRejectsStart ==
  (ExitedEarly /\ Quiescent) =>
     /\ m.startCall = "rejected"
     /\ m.startErr.type = "ServerStartError"
     /\ m.process = "null"
     /\ ~IsRunning

\* C2: stop() resolves from every state: while the driver's stop() is
\* pending the event loop still has something to run, or the child still
\* owes its exit.
C2_StopAlwaysResolves ==
  m.stopCall["pub"] = "pending" => ~Quiescent

\* C3: stop() on a live child that ignores SIGTERM is pending for at most
\* shutdownTimeout plus the kill latency; its kill timer fires when exactly
\* shutdownTimeout has elapsed and sends SIGKILL; and it resolves on the
\* exit that SIGKILL forces.
C3_StopEscalatesInTime ==
  [][\A slot \in Slots :
       /\ (m'.stopCall[slot] = "pending" /\ m'.stopOnLive[slot]
             /\ m'.child.ignoresTerm)
          => m'.stopElapsed[slot] <= options.shutdownTimeout + KillLatency
       /\ (lastAction' = Step("timer", slot) /\ m.child.alive)
          => /\ m.stopElapsed[slot] = options.shutdownTimeout
             /\ m'.child.killSent
       /\ (m.stopCall[slot] = "pending" /\ m.stopOnLive[slot]
             /\ m.child.ignoresTerm /\ m'.stopCall[slot] = "resolved")
          => /\ m.child.killSent
             /\ lastAction' = Step("exit", "null")
             /\ m'.process = "null"
    ]_vars

\* The driver's stop() on a child that ignores SIGTERM, SIGKILL sent and
\* the whole kill latency used up.
C3_Witness ==
  /\ m.stopCall["pub"] = "pending"
  /\ m.stopOnLive["pub"]
  /\ m.child.ignoresTerm
  /\ m.child.killSent
  /\ m.stopElapsed["pub"] = options.shutdownTimeout + KillLatency

\* C4: every rejection of start() is a ServerStartError that wraps its
\* cause.
C4_RejectionIsServerStartError ==
  m.startCall = "rejected" =>
     m.startErr.type = "ServerStartError" /\ m.startErr.cause # "none"

\* C5: whenever a start() call resolves, at once or after the readiness
\* wait, isRunning() is true.
C5_ResolvedStartIsRunning ==
  [][(m'.startCall = "resolved"
        /\ (m.startCall = "pending" \/ lastAction'.op = "start"))
     => IsRunningOf(m')]_vars

\* C6: under serialized calls at most one child is alive; a child is
\* spawned only when no handle is held, and a start() that finds a handle
\* leaves the child as it is; a handle is cleared only on the exit of its
\* child or when the child never had a pid.
C6_OneChildAtATime ==
  [][serialized =>
       /\ LiveChildren(m') <= 1
       /\ m'.spawned # m.spawned => m.process = "null"
       /\ (lastAction'.op = "start" /\ m.process # "null")
          => (m'.child = m.child /\ m'.process = m.process)
       /\ (m.process # "null" /\ m'.process = "null")
          => (~m.child.pid \/ (lastAction'.op = "exit" /\ ~m'.child.alive))
    ]_vars

\* A second child runs, after the first was stopped, and it is the only one.
C6_Witness ==
  /\ serialized
  /\ m.spawned = 2
  /\ m.child.alive
  /\ m.restartCall = "starting"
  /\ LiveChildren(m) = 1

\* C7: an exit or a spawn error while the grace timer is still armed
\* rejects waitForReady() with a ServerStartError in that very step, and
\* leaves neither timer to be waited for.
C7_EarlyExitRejectsAtOnce ==
  [][(lastAction'.op \in {"exit", "error"} /\ m.wfr = "pending"
        /\ m.graceTimer # Unarmed)
     => /\ m'.wfr = "rejected"
        /\ m'.wfrErr.type = "ServerStartError"
        /\ m'.graceTimer = Unarmed
        /\ m'.startupTimer = Unarmed]_vars

\* The child exited before the grace window was over.
C7_Witness ==
  /\ lastAction.op = "exit"
  /\ m.wfr = "rejected"
  /\ m.wfrErr.msg = "exited prematurely"
  /\ m.wfrElapsed < GraceWindow

Logged(kind) == SelectSeq(m.log, LAMBDA e : e.kind = kind)

\* C9: the step of a child exit invokes every stop-subscriber once, and
\* the error-subscribers, with the error of the exit code, exactly when the
\* code is neither 0 nor null.
C9_ExitNotifiesSubscribers ==
  lastAction.op = "exit" =>
     /\ Logged("stop") = NotifyLoop(m.stopCallbacks, "stop", "none")
     /\ Logged("error") =
          IF lastAction.arg \notin {"0", "null"}
          THEN NotifyLoop(m.errorCallbacks, "error", "ExitCodeError")
          ELSE <<>>

\* A child stopped by the driver exited with code 1, subscribers of both
\* kinds registered.
C9_Witness ==
  /\ lastAction = Step("exit", "1")
  /\ m.stopCall["pub"] = "resolved"
  /\ m.process = "null"
  /\ m.stopCallbacks # <<>>
  /\ m.errorCallbacks # <<>>

\* C10: a child that exits with a non-zero code while the manager is
\* running leaves isRunning() false and spawns nothing; a child is spawned
\* only by a step of start(), the driver's or restart()'s.
C10_NoAutoRestart ==
  [][/\ (IsRunningOf(m) /\ lastAction' = Step("exit", "1"))
        => (~IsRunningOf(m') /\ m'.spawned = m.spawned /\ ~m'.child.alive)
     /\ m'.spawned # m.spawned => lastAction'.op = "start"
    ]_vars

\* The child exited with code 1 on its own while the manager was ready: the
\* handle is still held and nothing runs.
C10_Witness ==
  /\ lastAction = Step("exit", "1")
  /\ m.startCall = "resolved"
  /\ m.process = "child"
  /\ m.stopCall["pub"] = "idle"
  /\ ~IsRunning
  /\ LiveChildren(m) = 0

---------------------------------------------------------------------------
(* Properties of the subscribers and of restart()                          *)

Kinds == {"start", "stop", "error"}

\* The subscribers of one kind, as registered.
CallbacksOf(s, kind) ==
  CASE kind = "start" -> s.startCallbacks
    [] kind = "stop" -> s.stopCallbacks
    [] OTHER -> s.errorCallbacks

\* The callbacks of one kind invoked by the step that led to s, in the
\* order of their invocation.
InvokedOf(s, kind) ==
  LET lg == SelectSeq(s.log, LAMBDA e : e.kind = kind)
  IN [i \in 1..Len(lg) |-> lg[i].cb]

Quiet(s) == [s EXCEPT !.console = <<>>]

\* C11: a subscriber that throws does not leave the notification loop: a
\* loop that ran invoked every subscriber of its kind, each thrown exception
\* was caught and written to the console, and the step left the manager,
\* its promises included, as the same step leaves it when no subscriber
\* throws.
C11_ThrowingSubscriberContained ==
  [][/\ \A kind \in Kinds :
          /\ InvokedOf(m', kind) # <<>>
             => Len(InvokedOf(m', kind)) = Len(CallbacksOf(m', kind))
          /\ \A i \in 1..Len(m'.console) :
                m'.console[i].kind = kind
                => \E j \in 1..Len(InvokedOf(m', kind)) :
                      InvokedOf(m', kind)[j] = m'.console[i].cb
     /\ lastAction'.op = "exit"
        => Quiet(m') = ChildExitStep(m, lastAction'.arg, {})
     /\ lastAction' = Step("error", "spawn")
        => Quiet(m') = SpawnErrorStep(m, {})
     /\ lastAction' = Step("timer", "grace")
        => Quiet(m') = GraceTimerStep(m, {})
    ]_vars

\* The first of two stop-subscribers threw on the exit that the driver's
\* stop() waited for: the second was invoked and the stop() resolved.
C11_Witness ==
  /\ lastAction.op = "exit"
  /\ m.console # <<>>
  /\ m.console[1] = [kind |-> "stop", cb |-> 1]
  /\ InvokedOf(m, "stop") = <<1, 2>>
  /\ m.stopCall["pub"] = "resolved"
  /\ m.process = "null"

\* C12: restart() calls start() only when its stop() has resolved, which
\* is when no handle is held and the old child has exited; no child is
\* spawned while that stop() is pending; and restart() settles as its
\* start() settles, rejecting with the very error start() rejected with.
C12_RestartStopsThenStarts ==
  [][/\ lastAction' = Step("start", "restart")
        => /\ m.restartCall = "stopping"
           /\ m.stopCall["pub"] = "resolved"
           /\ m.process = "null"
           /\ ~m.child.alive
     /\ (m.restartCall = "stopping" /\ m'.spawned # m.spawned)
        => lastAction' = Step("start", "restart")
     /\ m'.restartCall = "starting" => m'.startCall = "pending"
     /\ m'.restartCall = "rejected"
        => (m'.startCall = "rejected" /\ m'.restartErr = m'.startErr)
     /\ m'.restartCall = "resolved" => m'.startCall = "resolved"
    ]_vars

\* restart() of a running manager: the old child was stopped, the second
\* spawn failed, and restart() rejected with the error of its start().
C12_Witness ==
  /\ m.restartCall = "rejected"
  /\ m.spawned = 2
  /\ m.startCall = "rejected"
  /\ m.restartErr = m.startErr
  /\ m.startErr # NoErr

\* C13: a registration appends the callback to the list of its kind and
\* leaves the other lists alone, whatever their lengths; and a notification
\* invokes the callbacks of its kind in the order of their registration,
\* which is the order of their numbers.
C13_InvokedInRegistrationOrder ==
  [][/\ \A kind \in Kinds :
          /\ lastAction' = Step("subscribe", kind)
             => /\ CallbacksOf(m', kind) =
                     Append(CallbacksOf(m, kind), Len(CallbacksOf(m, kind)) + 1)
                /\ \A other \in Kinds \ {kind} :
                      CallbacksOf(m', other) = CallbacksOf(m, other)
          /\ lastAction'.op # "subscribe"
             => CallbacksOf(m', kind) = CallbacksOf(m, kind)
          /\ InvokedOf(m', kind) # <<>>
             => InvokedOf(m', kind) = [i \in 1..Len(CallbacksOf(m, kind)) |-> i]
    ]_vars

\* Two error-subscribers were notified of a failed spawn, the first
\* registered first.
C13_Witness ==
  /\ lastAction = Step("error", "spawn")
  /\ Len(m.errorCallbacks) = 2
  /\ InvokedOf(m, "error") = <<1, 2>>

---------------------------------------------------------------------------
(* Properties of the timers and of isRunning()                             *)

C36_KillOnlyARunningProcess ==
  [][/\ \A slot \in Slots :
          lastAction' = Step("timer", slot)
          => /\ m.child.alive
             /\ m.child.termSent
             /\ m.stopElapsed[slot] = options.shutdownTimeout
     /\ \A slot \in Slots :
          lastAction'.op = "exit" => m'.killTimer[slot] = Unarmed
     /\ (m'.child.killSent /\ ~m.child.killSent)
        => \E slot \in Slots : lastAction' = Step("timer", slot)
    ]_vars

\* C37: under serialized calls, whenever isRunning() is true a handle is
\* held, the readiness wait of that child resolved, and the child has not
\* exited; and the step of an exit leaves isRunning() false.
C37_RunningIsReadyAndNotExited ==
  [][serialized =>
       /\ IsRunningOf(m')
          => (m'.process # "null" /\ m'.wfr = "resolved" /\ m'.child.alive)
       /\ lastAction'.op = "exit" => ~IsRunningOf(m')
    ]_vars

\* A child that was ready exited on its own: the handle and the pid are
\* still there, and isRunning() is false.
C37_Witness ==
  /\ serialized
  /\ lastAction.op = "exit"
  /\ m.wfr = "resolved"
  /\ m.process # "null"
  /\ m.child.pid
  /\ ~IsRunning

\* A start() is pending on a child that was signalled (child.killed stays
\* true after the exit): only a stop() called while the start() waited for
\* readiness signals it, the cleanup stop() of start() finding the child
\* signalled or gone.
StoppedWhileWaiting(s) == s.startCall = "pending" /\ s.child.killed

\* C38: from a stop() called while start() waits for readiness, no step
\* invokes a start-subscriber or resolves the start(); the step that
\* rejects it rejects with a ServerStartError and leaves stop() resolved,
\* no handle held and no child alive; and, the event loop running and a
\* child dying of SIGKILL, that step comes, whether the child exits on
\* SIGTERM or ignores it.
C38_StopDuringStartupRejectsStart ==
  /\ [][StoppedWhileWaiting(m)
        => /\ InvokedOf(m', "start") = <<>>
           /\ m'.startCall \in {"pending", "rejected"}
           /\ m'.startCall = "rejected"
              => /\ m'.startErr.type = "ServerStartError"
                 /\ m'.stopCall["pub"] = "resolved"
                 /\ m'.process = "null"
                 /\ LiveChildren(m') = 0
       ]_vars
  /\ StoppedWhileWaiting(m)
        ~> (/\ m.startCall = "rejected"
            /\ m.startErr.type = "ServerStartError"
            /\ m.stopCall["pub"] = "resolved"
            /\ m.process = "null"
            /\ LiveChildren(m) = 0)

\* The start() of a child that was stopped during its readiness wait has
\* rejected: the child outlived the grace window, whose timer rejected the
\* wait, and died of a signal.
C38_Witness ==
  /\ m.startCall = "rejected"
  /\ m.startErr.type = "ServerStartError"
  /\ m.wfrErr.msg = "exited or failed to start quickly"
  /\ m.child.killed
  /\ m.child.signalCode = "SIG"
  /\ m.stopCall["pub"] = "resolved"
  /\ m.process = "null"

---------------------------------------------------------------------------
(* HTTPAdapter, src/adapters/transport/http.ts                             *)

\* The calls of request() and openStream() made on the adapter, numbered
\* as they are made.  Each call made its own AbortController, which bears
\* the number of the call.
Calls == 1..MaxCalls

\* The timeouts of the adapter: options.defaultTimeout, which every call
\* made without a `timeout` of its own takes (lines 54 and 132).
HttpTimeouts == {k * TimeStep : k \in 1..MaxHttpTimeoutSteps}

\* this.controller = null
NoController == 0

\* A call not made yet.
NoCall ==
  [ kind       |-> "none",   \* "request" or "stream"
    phase      |-> "idle",   \* "fetch", "body" (request: decoding),
                             \* "reading" (stream), "resolved", "rejected"
    err        |-> "none",   \* what it rejected with
    timer      |-> Unarmed,  \* ms left on its timeoutId
    sinceArmed |-> 0,        \* ms since it last armed its timer
    overlapped |-> FALSE ]   \* another call was in flight during this one

\* The adapter after construction, lines 28 and 34-41.
InitAdapter(timeout) ==
  [ defaultTimeout |-> timeout,
    controller     |-> NoController,
    calls          |-> [id \in Calls |-> NoCall],
    made           |-> 0,
    last           |-> Step("init", 0) ]

InFlight(c) == c.phase \in {"fetch", "body", "reading"}

AnyInFlight(h) == \E id \in Calls : InFlight(h.calls[id])

\* A finally block that leaves the controller slot as it is.
Finally_KeepsController(h, id) ==
  [h EXCEPT !.calls[id].timer = Unarmed, !.calls[id].sinceArmed = 0]

\* The finally block of request() and of openStream(), lines 117-120 and
\* 211-214: the call's timer is cleared and the slot is set to null,
\* whichever controller it holds.
Finally(h, id) ==
  [h EXCEPT !.calls[id].timer = Unarmed,
            !.calls[id].sinceArmed = 0,
            !.controller = NoController]

\* The call leaves through its finally block, with a value or an error.
SettleCall(h, id, phase, err) ==
  Finally([h EXCEPT !.calls[id].phase = phase, !.calls[id].err = err], id)

\* controller.abort(): the fetch or the read made with that controller's
\* signal rejects with the abort error.
AbortController(h, c) ==
  IF InFlight(h.calls[c]) THEN SettleCall(h, c, "rejected", "AbortError")
  ELSE h

\* A timer callback that does nothing.
TimeoutCallback_Idle(h) == h

\* The callback of a call's timer, lines 63-65, 140-142 and 201-203:
\* this.controller?.abort(), on the controller the slot holds then.
TimeoutCallback(h) ==
  IF h.controller = NoController THEN h
  ELSE AbortController(h, h.controller)

\* close(), lines 220-225.
close(h) ==
  IF h.controller # NoController
  THEN [AbortController(h, h.controller) EXCEPT !.controller = NoController]
  ELSE h

\* request() and openStream() up to their fetch(), lines 58-65 and 135-142:
\* a new controller in the slot, a timer armed.
MakeCall(h, kind) ==
  LET id == h.made + 1
  IN [h EXCEPT
        !.made = id,
        !.controller = id,
        !.calls = [c \in Calls |->
           IF c = id
           THEN [NoCall EXCEPT !.kind = kind,
                               !.phase = "fetch",
                               !.timer = h.defaultTimeout,
                               !.overlapped = AnyInFlight(h)]
           ELSE IF InFlight(h.calls[c])
           THEN [h.calls[c] EXCEPT !.overlapped = TRUE]
           ELSE h.calls[c]]]

\* One event of a stream, lines 193-208: JSON.parse, then `yield parsedData`
\* and the timer armed anew; or, from the catch block, `yield data` alone.
Yield(h, id, parsed) ==
  IF parsed
  THEN [h EXCEPT !.calls[id].timer = h.defaultTimeout,
                 !.calls[id].sinceArmed = 0]
  ELSE h

HttpTimerDue(h) == \E id \in Calls : h.calls[id].timer = 0

\* What the network and the consumer do happens before the timers that run
\* out at the same instant.
HttpMayHappen(id) == InFlight(http.calls[id]) /\ ~HttpTimerDue(http)

HttpStep(h, op, id) == [h EXCEPT !.last = Step(op, id)]

\* The caller calls request().
HttpRequest ==
  /\ http.made < MaxCalls
  /\ ~HttpTimerDue(http)
  /\ http' = HttpStep(MakeCall(http, "request"), "request", http.made + 1)
  /\ UNCHANGED <<options, serialized, m, lastAction, sse, tool, testClient, helper>>

\* The caller calls openStream() and asks for its first value.
HttpOpenStream ==
  /\ http.made < MaxCalls
  /\ ~HttpTimerDue(http)
  /\ http' = HttpStep(MakeCall(http, "stream"), "stream", http.made + 1)
  /\ UNCHANGED <<options, serialized, m, lastAction, sse, tool, testClient, helper>>

\* fetch() settles, lines 93-98 and 153-166: with a response that is ok,
\* with one that is not, with one that has no body, or with a failure of the
\* network.
HttpResponse(id, outcome) ==
  /\ HttpMayHappen(id)
  /\ http.calls[id].phase = "fetch"
  /\ LET kind == http.calls[id].kind
         h == CASE outcome = "ok" ->
                     [http EXCEPT !.calls[id].phase =
                        IF kind = "request" THEN "body" ELSE "reading"]
                [] outcome = "status" ->
                     SettleCall(http, id, "rejected", "HTTPError")
                [] outcome = "network" ->
                     SettleCall(http, id, "rejected", "NetworkError")
                [] OTHER ->
                     IF kind = "stream"
                     THEN SettleCall(http, id, "rejected", "NoBodyError")
                     ELSE [http EXCEPT !.calls[id].phase = "body"]
     IN http' = HttpStep(h, outcome, id)
  /\ UNCHANGED <<options, serialized, m, lastAction, sse, tool, testClient, helper>>

\* response.json(), text() or arrayBuffer() settles, lines 102-116.
HttpBody(id, decoded) ==
  /\ HttpMayHappen(id)
  /\ http.calls[id].phase = "body"
  /\ http' = HttpStep(IF decoded
                        THEN SettleCall(http, id, "resolved", "none")
                        ELSE SettleCall(http, id, "rejected", "DecodeError"),
                      IF decoded THEN "decoded" ELSE "undecodable", id)
  /\ UNCHANGED <<options, serialized, m, lastAction, sse, tool, testClient, helper>>

\* reader.read() brings the end of an event whose data is JSON (parsed) or
\* is not, and the consumer takes the value yielded.
HttpStreamEvent(id, parsed) ==
  /\ HttpMayHappen(id)
  /\ http.calls[id].phase = "reading"
  /\ http' = HttpStep(Yield(http, id, parsed),
                      IF parsed THEN "json" ELSE "raw", id)
  /\ UNCHANGED <<options, serialized, m, lastAction, sse, tool, testClient, helper>>

\* reader.read() reports the end of the body, lines 175-177.
HttpStreamEnd(id) ==
  /\ HttpMayHappen(id)
  /\ http.calls[id].phase = "reading"
  /\ http' = HttpStep(SettleCall(http, id, "resolved", "none"), "end", id)
  /\ UNCHANGED <<options, serialized, m, lastAction, sse, tool, testClient, helper>>

\* The timer of a call fires.
HttpTimerFires(id) ==
  /\ http.calls[id].timer = 0
  /\ http' = HttpStep(TimeoutCallback([http EXCEPT !.calls[id].timer = Unarmed]),
                      "timer", id)
  /\ UNCHANGED <<options, serialized, m, lastAction, sse, tool, testClient, helper>>

\* The caller calls close().
HttpClose ==
  /\ ~HttpTimerDue(http)
  /\ http.last.op # "close" \/ http.last.arg = 0
  /\ http' = HttpStep(close(http), "close",
                      IF http.last.op = "close" THEN 1 ELSE 0)
  /\ UNCHANGED <<options, serialized, m, lastAction, sse, tool, testClient, helper>>

\* The time a call has waited is recorded up to this.
SinceArmedCap(h) == h.defaultTimeout + TimeStep

\* TimeStep milliseconds pass while a call is in flight.
HttpTick ==
  /\ AnyInFlight(http)
  /\ ~HttpTimerDue(http)
  /\ LET h == [http EXCEPT !.calls = [id \in Calls |->
                  [http.calls[id] EXCEPT
                     !.timer = Countdown(http.calls[id].timer),
                     !.sinceArmed =
                        IF InFlight(http.calls[id])
                        THEN Min(SinceArmedCap(http),
                                 http.calls[id].sinceArmed + TimeStep)
                        ELSE 0]]]
     IN /\ h # http
        /\ http' = HttpStep(h, "tick", 0)
  /\ UNCHANGED <<options, serialized, m, lastAction, sse, tool, testClient, helper>>

HttpInit ==
  /\ NoManager
  /\ http \in {InitAdapter(timeout) : timeout \in HttpTimeouts}
  /\ sse = NoSse
  /\ tool = NoTool
  /\ testClient = NoClient
  /\ helper = NoHelper

HttpNext ==
  \/ HttpRequest
  \/ HttpOpenStream
  \/ \E id \in Calls, outcome \in {"ok", "status", "network", "nobody"} :
        HttpResponse(id, outcome)
  \/ \E id \in Calls, decoded \in BOOLEAN : HttpBody(id, decoded)
  \/ \E id \in Calls, parsed \in BOOLEAN : HttpStreamEvent(id, parsed)
  \/ \E id \in Calls : HttpStreamEnd(id)
  \/ \E id \in Calls : HttpTimerFires(id)
  \/ HttpClose
  \/ HttpTick

HttpSpec == HttpInit /\ [][HttpNext]_vars

---------------------------------------------------------------------------
(* Properties of HTTPAdapter                                               *)

\* C14: a request() during which no other call is in flight has its timer
\* counting down from `timeout`; the timer fires when `timeout` has
\* elapsed, and the request then rejects with the abort error.
C14_RequestAbortedAtTimeout ==
  [][\A id \in Calls :
       /\ (http'.calls[id].kind = "request" /\ InFlight(http'.calls[id])
             /\ ~http'.calls[id].overlapped)
          => /\ http'.calls[id].sinceArmed <= http.defaultTimeout
             /\ http'.calls[id].timer =
                   http.defaultTimeout - http'.calls[id].sinceArmed
             /\ http'.controller = id
       /\ (http'.last = Step("timer", id) /\ http.calls[id].kind = "request"
             /\ InFlight(http.calls[id]) /\ ~http.calls[id].overlapped)
          => /\ http.calls[id].sinceArmed = http.defaultTimeout
             /\ http'.calls[id].phase = "rejected"
             /\ http'.calls[id].err = "AbortError"
    ]_vars

\* The timer of the only request made has just fired on it, still waiting
\* for its response, and the request is rejected with the abort error.
C14_Witness ==
  /\ http.made = 1
  /\ http.last = Step("timer", 1)
  /\ http.calls[1].kind = "request"
  /\ http.calls[1].phase = "rejected"
  /\ http.calls[1].err = "AbortError"

\* C15: whichever way a request() leaves (its value, a status that is not
\* ok, a network failure, a body that does not decode, an abort), its timer
\* is cleared and the controller slot is null when it settles.
C15_RequestClearsTimerAndSlot ==
  [][\A id \in Calls :
       (http.calls[id].kind = "request" /\ InFlight(http.calls[id])
          /\ ~InFlight(http'.calls[id]))
       => /\ http'.calls[id].timer = Unarmed
          /\ http'.controller = NoController
          /\ http'.calls[id].phase \in {"resolved", "rejected"}
          /\ http'.calls[id].err \in
                {"none", "HTTPError", "NetworkError", "DecodeError",
                 "AbortError"}
          /\ http'.calls[id].phase = "resolved" <=> http'.calls[id].err = "none"
    ]_vars

\* Two requests have settled, one on a body that did not decode and one on
\* its value.
C15_Witness ==
  /\ http.calls[1].kind = "request"
  /\ http.calls[1].err = "DecodeError"
  /\ http.calls[2].kind = "request"
  /\ http.calls[2].phase = "resolved"
  /\ http.last = Step("decoded", 2)
  /\ http.controller = NoController

\* C16: whatever the interleaving of the calls made on one adapter, a call
\* still waiting for its response has waited for its timeout at most: when
\* the timeout has elapsed the call is aborted.
C16_EveryCallAbortedAtItsTimeout ==
  \A id \in Calls :
    http.calls[id].phase = "fetch"
    => http.calls[id].sinceArmed <= http.defaultTimeout

\* C17: close() cancels the one call in flight, if there is one; with no
\* call in flight, and when called a second time in a row, it changes
\* nothing.
C17_CloseCancelsAndIsIdempotent ==
  [][http'.last.op = "close"
     => /\ Cardinality({id \in Calls : InFlight(http.calls[id])}) = 1
           => ~AnyInFlight(http')
        /\ (~AnyInFlight(http) \/ http.last.op = "close")
           => [http' EXCEPT !.last = http.last] = http
    ]_vars

\* C19: every event a stream yields, parsed JSON or raw string, arms the
\* timer of the stream anew with the whole timeout.
C19_EveryEventRearms ==
  [][\A id \in Calls :
       (http'.last \in {Step("json", id), Step("raw", id)}
          /\ ~http.calls[id].overlapped)
       => /\ http'.calls[id].timer = http.defaultTimeout
          /\ http'.calls[id].sinceArmed = 0
    ]_vars

\* C34: the controller of a call is that call's alone: the timer of a
\* call never aborts another call that is in flight, and a call that
\* settles never empties the slot while it holds the controller of
\* another call.
C34_ControllerOwnedByItsCall ==
  [][/\ \A id, c \in Calls :
          (http'.last = Step("timer", id) /\ c # id
             /\ InFlight(http.calls[c]))
          => InFlight(http'.calls[c])
     /\ \A id \in Calls :
          (InFlight(http.calls[id]) /\ ~InFlight(http'.calls[id])
             /\ http.controller \notin {id, NoController})
          => http'.controller = http.controller
    ]_vars

---------------------------------------------------------------------------
(* The event-stream reader of openStream(), http.ts lines 168-210          *)

\* A text is a sequence of characters, a body a sequence of bytes.  The
\* bytes of an ASCII character are written as the character; C3 A9 are the
\* two bytes of the character e-acute.
LF == "\n"

EAcute == "e'"

DataPrefix == <<"d", "a", "t", "a", ":", " ">>

\* The lines a body is made of: an empty line, a data line with a JSON
\* text, a data line whose text is not JSON, and a line that is no data
\* line.
BodyLines ==
  { <<>>,
    DataPrefix \o <<"1">>,
    DataPrefix \o <<"C3", "A9">>,
    <<"i", "d">> }

RECURSIVE Join(_)
\* The bytes of some lines, each ended by a line feed.
Join(lines) ==
  IF lines = <<>> THEN <<>>
  ELSE Head(lines) \o <<LF>> \o Join(Tail(lines))

\* The bodies read: up to MaxLines lines, the last one whole or short of
\* its last byte.
Bodies ==
  LET whole == UNION {{Join(ls) : ls \in [1..n -> BodyLines]} : n \in 0..MaxLines}
  IN whole \cup {SubSeq(b, 1, Len(b) - 1) : b \in whole \ {<<>>}}

\* The bytes TextDecoder.decode(value, {stream: true}) keeps for the next
\* call: the first byte of a character whose second byte has not come.
Utf8Rest(bytes) ==
  IF bytes # <<>> /\ bytes[Len(bytes)] = "C3" THEN <<"C3">> ELSE <<>>

RECURSIVE Utf8Chars(_)
\* The characters of the bytes that stand for whole characters.
Utf8Chars(bytes) ==
  IF bytes = <<>> THEN <<>>
  ELSE IF Head(bytes) = "C3"
  THEN IF Len(bytes) = 1 THEN <<>>
       ELSE <<EAcute>> \o Utf8Chars(Tail(Tail(bytes)))
  ELSE <<Head(bytes)>> \o Utf8Chars(Tail(bytes))

\* The first place at which `sep` occurs in `s`, or 0.
IndexOf(s, sep) ==
  LET at == {i \in 1..(Len(s) - Len(sep) + 1) :
               SubSeq(s, i, i + Len(sep) - 1) = sep}
  IN IF at = {} THEN 0 ELSE CHOOSE i \in at : \A j \in at : i <= j

RECURSIVE Split(_, _)
\* String.prototype.split(sep).
Split(s, sep) ==
  LET i == IndexOf(s, sep)
  IN IF i = 0 THEN <<s>>
     ELSE <<SubSeq(s, 1, i - 1)>> \o Split(SubSeq(s, i + Len(sep), Len(s)), sep)

\* !event.trim(), line 187.
IsBlank(event) == \A i \in 1..Len(event) : event[i] \in {LF, " "}

\* line.startsWith('data: '), line 191.
IsDataLine(line) ==
  Len(line) >= Len(DataPrefix) /\ SubSeq(line, 1, Len(DataPrefix)) = DataPrefix

\* JSON.parse(data) returns a value, for the texts the lines carry: a
\* number is JSON, e-acute is not.
IsJson(data) == data # <<>> /\ \A i \in 1..Len(data) : data[i] = "1"

\* What is yielded for a data line, lines 194-207: the value JSON.parse
\* returns, or the text itself when it throws.
Yielded(dataLine) ==
  LET data == SubSeq(dataLine, Len(DataPrefix) + 1, Len(dataLine))
  IN IF IsJson(data) THEN [json |-> data] ELSE [raw |-> data]

\* lines.find(...), lines 190-191: the data lines of an event.
DataLines(event) == SelectSeq(Split(event, <<LF>>), IsDataLine)

\* The for loop of lines 186-209 over the events split off the buffer.
YieldedOf(events) ==
  LET withData == SelectSeq(events,
                            LAMBDA e : ~IsBlank(e) /\ DataLines(e) # <<>>)
  IN [i \in 1..Len(withData) |-> Yielded(Head(DataLines(withData[i])))]

\* A buffer emptied after every read.
Retained_Nothing(segments) == <<>>

\* buffer = events.pop() || '', line 184.
Retained(segments) == segments[Len(segments)]

\* The reader before its first read, lines 168-170.
InitReader(body) ==
  [ body    |-> body,    \* the bytes of the response body
    pos     |-> 0,       \* how many of them have been read
    pending |-> <<>>,    \* the bytes the decoder holds back
    buffer  |-> <<>>,
    yielded |-> <<>>,    \* the values yielded so far
    done    |-> FALSE ]

\* One turn of the while loop, lines 173-209, on a chunk of k bytes.
ReadChunk(r, k) ==
  LET bytes == r.pending \o SubSeq(r.body, r.pos + 1, r.pos + k)
      buffer == r.buffer \o Utf8Chars(bytes)
      segments == Split(buffer, <<LF, LF>>)
      events == SubSeq(segments, 1, Len(segments) - 1)
  IN [r EXCEPT !.pos = r.pos + k,
               !.pending = Utf8Rest(bytes),
               !.buffer = Retained(segments),
               !.yielded = r.yielded \o YieldedOf(events)]

\* reader.read() brings the next k bytes of the body.
SseRead(k) ==
  /\ ~sse.done
  /\ sse.pos + k <= Len(sse.body)
  /\ sse' = ReadChunk(sse, k)
  /\ UNCHANGED <<options, serialized, m, lastAction, http, tool, testClient, helper>>

\* A reader that yields what is left in its buffer when the body ends.
AtEnd_Flush(r) ==
  [r EXCEPT !.done = TRUE, !.yielded = @ \o YieldedOf(<<r.buffer>>)]

\* if (done) break, lines 175-177: the loop is left with the buffer as it
\* is, and nothing after the loop reads it.
AtEnd(r) == [r EXCEPT !.done = TRUE]

\* reader.read() reports the end of the body, lines 175-177.
SseDone ==
  /\ ~sse.done
  /\ sse.pos = Len(sse.body)
  /\ sse' = AtEnd(sse)
  /\ UNCHANGED <<options, serialized, m, lastAction, http, tool, testClient, helper>>

SseInit ==
  /\ NoManager
  /\ http = NoHttp
  /\ sse \in {InitReader(body) : body \in Bodies}
  /\ tool = NoTool
  /\ testClient = NoClient
  /\ helper = NoHelper

SseNext ==
  \/ \E k \in 1..(MaxLines * (Len(DataPrefix) + 3)) : SseRead(k)
  \/ SseDone

SseSpec == SseInit /\ [][SseNext]_vars

---------------------------------------------------------------------------
(* Properties of the event-stream reader                                   *)

\* The lines of a text that are ended by a line feed.
CompleteLines(text) ==
  LET segments == Split(text, <<LF>>)
  IN SubSeq(segments, 1, Len(segments) - 1)

RECURSIVE ValuesOf(_, _)
\* The values of the event blocks of some lines: a block is ended by an
\* empty line, and its value is that of its first data line, `first` when
\* one was met already.
ValuesOf(lines, first) ==
  IF lines = <<>> THEN <<>>
  ELSE IF Head(lines) = <<>>
  THEN (IF first = <<>> THEN <<>> ELSE <<Yielded(first[1])>>)
       \o ValuesOf(Tail(lines), <<>>)
  ELSE IF first = <<>> /\ IsDataLine(Head(lines))
  THEN ValuesOf(Tail(lines), <<Head(lines)>>)
  ELSE ValuesOf(Tail(lines), first)

\* C18: however the body was cut into chunks, what has been yielded when
\* some bytes have been read is one value for every event block complete in
\* those bytes that has a data line, in the order of the blocks: the parsed
\* JSON of the block's first data line, or its text when it is not JSON.
C18_OneValuePerBlockAnyChunking ==
  sse.yielded =
    ValuesOf(CompleteLines(Utf8Chars(SubSeq(sse.body, 1, sse.pos))), <<>>)

\* A JSON event was yielded, and the last chunk ended inside the data line
\* of a second event, between the two bytes of a character.
C18_Witness ==
  /\ sse.yielded = <<[json |-> <<"1">>]>>
  /\ sse.buffer = DataPrefix
  /\ sse.pending = <<"C3">>

\* The event blocks of a text that are ended by a blank line, empty ones
\* included.
Terminated(text) == Len(Split(text, <<LF, LF>>)) - 1

\* C39: the number of values yielded never exceeds the number of blocks
\* ended by a blank line in what was read, also after the body has ended:
\* what the buffer holds then, a block without its blank line, is never
\* yielded.
C39_UnterminatedBlockNeverYielded ==
  Len(sse.yielded)
    <= Terminated(Utf8Chars(SubSeq(sse.body, 1, sse.pos)))

\* The body ended after one whole event and a data line that no blank line
\* followed: one value was yielded and the data line is left in the buffer.
C39_Witness ==
  /\ sse.done
  /\ Len(sse.yielded) = 1
  /\ DataLines(sse.buffer) # <<>>

---------------------------------------------------------------------------
(* MCPTestClient.callTool(): the client of src/core/client.ts, "sdk", which *)
(* calls the typed SDK client, and the client of src/src/core/client.ts,    *)
(* "http", which calls transport.request()                                  *)

Clients == {"sdk", "http"}

\* The words of an error message.
Words == {"401", "Unauthorized", "Timeout", "refused"}

Messages == UNION {[1..n -> Words] : n \in 0..MaxWords}

\* What the call made inside callTool() throws: an Error with a name and a
\* message, or a value that is no Error.
Thrown ==
  [isError : {TRUE}, name : {"AbortError", "Error"}, message : Messages]
  \cup [isError : {FALSE}, name : {"string", "undefined"}, message : {<<>>}]

\* String.prototype.toLowerCase(), word by word.
ToLowerCase(message) ==
  [i \in 1..Len(message) |->
     CASE message[i] = "Unauthorized" -> "unauthorized"
       [] message[i] = "Timeout" -> "timeout"
       [] OTHER -> message[i]]

\* String.prototype.includes(word).
Includes(message, word) == \E i \in 1..Len(message) : message[i] = word

\* An error thrown by callTool(): its class, its cause and the keys of its
\* details.
ToolError(type, cause, details) ==
  [type |-> type, cause |-> cause, details |-> details]

\* The catch block of the "sdk" client, src/core/client.ts (part_004)
\* lines 204-229.
CatchSdk(e) ==
  IF e.isError
  THEN IF e.name = "AbortError" \/ Includes(ToLowerCase(e.message), "timeout")
       THEN ToolError("TimeoutError", e, {"toolName", "params"})
       ELSE IF \/ Includes(ToLowerCase(e.message), "401")
               \/ Includes(ToLowerCase(e.message), "unauthorized")
       THEN ToolError("AuthenticationError", e, {"toolName"})
       ELSE ToolError("ToolExecutionError", e, {"toolName", "params"})
  ELSE ToolError("ToolExecutionError", "none", {"toolName", "params", "error"})

\* The catch block of the "http" client, src/src/core/client.ts lines
\* 101-125: a value that is no Error is thrown on as it came.
CatchHttp(e) ==
  IF e.isError
  THEN IF e.name = "AbortError"
       THEN ToolError("TimeoutError", e, {"toolName", "params"})
       ELSE IF Includes(e.message, "401")
       THEN ToolError("AuthenticationError", e, {"toolName"})
       ELSE ToolError("ToolExecutionError", e, {"toolName", "params"})
  ELSE ToolError(e.name, "none", {})

\* A value the server replies with that is no envelope, as
\* {temperature: 72}.
Bare == [bare |-> TRUE]

Statuses == {"success", "error", "accepted"}

Payloads == {"result", "error", "taskId"}

\* A reply that is an envelope: its status, and which of result, error and
\* taskId it carries.
Envelope(status, fields) == [status |-> status, fields |-> fields]

\* What the inner call resolves with: the server is not held to the
\* MCPToolResponse type, which nothing checks at run time.
ToolReplies ==
  {Bare} \cup {Envelope(s, F) : s \in Statuses, F \in SUBSET Payloads}

NoResponse == [none |-> TRUE]

\* What the "sdk" client returns, src/core/client.ts (part_004) lines
\* 198-202, shown with and without the wrapping.
SdkResponse_PassThrough(reply) == reply

SdkResponse(reply) ==
  [status |-> "success", fields |-> {"result"}, result |-> reply]

\* What the "http" client returns, src/src/core/client.ts lines 95-100.
HttpResponseOf(reply) == reply

\* A callTool() whose inner call is outstanding.
InitTool(client, e, reply) ==
  [ client   |-> client,
    phase    |-> "pending",   \* then "resolved" or "rejected"
    thrown   |-> e,           \* what the inner call throws, if it throws
    reply    |-> reply,       \* what it resolves with, if it resolves
    response |-> NoResponse,
    error    |-> ToolError("none", "none", {}) ]

\* The inner call returns and callTool() returns its response.
ToolReturns ==
  /\ tool.phase = "pending"
  /\ tool' = [tool EXCEPT !.phase = "resolved",
                          !.response = IF tool.client = "sdk"
                                       THEN SdkResponse(tool.reply)
                                       ELSE HttpResponseOf(tool.reply)]
  /\ UNCHANGED <<options, serialized, m, lastAction, http, sse, testClient, helper>>

\* The inner call throws and the catch block runs.
ToolThrows ==
  /\ tool.phase = "pending"
  /\ tool' = [tool EXCEPT !.phase = "rejected",
                          !.error = IF tool.client = "sdk"
                                    THEN CatchSdk(tool.thrown)
                                    ELSE CatchHttp(tool.thrown)]
  /\ UNCHANGED <<options, serialized, m, lastAction, http, sse, testClient, helper>>

ToolInit ==
  /\ NoManager
  /\ http = NoHttp
  /\ sse = NoSse
  /\ tool \in {InitTool(client, e, reply) :
                 client \in Clients, e \in Thrown, reply \in ToolReplies}
  /\ testClient = NoClient
  /\ helper = NoHelper

ToolNext == ToolReturns \/ ToolThrows

ToolSpec == ToolInit /\ [][ToolNext]_vars

---------------------------------------------------------------------------
(* Properties of callTool()                                                *)

\* The thrown value carries a sign of cancellation or timeout.
TimeoutIndicated(e) ==
  e.isError /\ (e.name = "AbortError" \/ Includes(e.message, "Timeout"))

\* The thrown value carries a sign of a 401 or of a missing authorization.
AuthIndicated(e) ==
  e.isError /\ (Includes(e.message, "401") \/ Includes(e.message, "Unauthorized"))

\* C20: what callTool() throws is a TimeoutError when the thrown value
\* carries a sign of cancellation or timeout, whatever else it carries;
\* otherwise an AuthenticationError when it carries a sign of 401 or
\* unauthorized; otherwise, a value that is no Error included, a
\* ToolExecutionError whose details are the tool name and the params.
C20_ThreeTierCascade ==
  tool.phase = "rejected" =>
    /\ tool.error.type \in
         {"TimeoutError", "AuthenticationError", "ToolExecutionError"}
    /\ tool.error.type = "TimeoutError" <=> TimeoutIndicated(tool.thrown)
    /\ tool.error.type = "AuthenticationError"
         <=> (AuthIndicated(tool.thrown) /\ ~TimeoutIndicated(tool.thrown))
    /\ tool.error.type = "ToolExecutionError"
         => {"toolName", "params"} \subseteq tool.error.details

\* The envelope is one of the three of MCPToolResponse: a success with a
\* result and neither error nor taskId, an error with the error alone, an
\* acceptance with the taskId alone. A value without status is none of
\* the three cases.
Exclusive(r) ==
  r \in {Bare, NoResponse}
  \/ /\ r.status = "success" => "result" \in r.fields /\ r.fields \subseteq {"result"}
     /\ r.status = "error" => r.fields = {"error"}
     /\ r.status = "accepted" => r.fields = {"taskId"}

C25_BothShapesNormalized ==
  tool.phase = "resolved" /\ tool.client = "sdk" =>
    IF tool.reply = Bare
    THEN tool.response = SdkResponse(Bare)
    ELSE /\ tool.response.status = tool.reply.status
         /\ tool.response.fields = tool.reply.fields

---------------------------------------------------------------------------
(* MCPTestClient.getResource() and getSchema() of src/core/client.ts       *)
(* (part_004), over the typed SDK client                                   *)

\* The longest list of resources or of tools the server returns.
MaxResources == 2

\* A mimeType that is not there.
Undefined == <<"undefined">>

\* text/plain, text/html and image/png, letter by letter, and no mimeType.
MimeTypes ==
  {Undefined, <<"t", "/", "p">>, <<"t", "/", "h">>, <<"i", "/", "p">>}

\* The ids asked for and the uris the server lists, word by word.
Ids == {<<"a">>, <<"Timeout">>, <<"401">>}

ToolNames == {"t", "u"}

\* What listResources() resolves with, up to MaxResources resources: a
\* server lists a uri once.
ResourceLists ==
  UNION {{l \in [1..n -> [uri : Ids, mimeType : MimeTypes]] :
            \A i, j \in 1..n : l[i].uri = l[j].uri => i = j}
         : n \in 0..MaxResources}

\* What listTools() resolves with: a server lists a tool name once.
ToolLists ==
  UNION {{l \in [1..n -> [name : ToolNames]] :
            \A i, j \in 1..n : l[i].name = l[j].name => i = j}
         : n \in 0..MaxResources}

NoThrown == [isError |-> FALSE, name |-> "none", message |-> <<>>]

\* What a call of the typed client does: it resolves with a list or it
\* throws.
Resolves(list) == [ok |-> TRUE, list |-> list, thrown |-> NoThrown]

Throws(e) == [ok |-> FALSE, list |-> <<>>, thrown |-> e]

NoReply == Throws(NoThrown)

\* resource.mimeType?.split('/')[0] || 'unknown'
TypeOf(mimeType) ==
  IF mimeType = Undefined THEN <<"unknown">>
  ELSE LET first == Split(mimeType, <<"/">>)[1]
       IN IF first = <<>> THEN <<"unknown">> ELSE first

\* Array.prototype.find(res => res.uri === resourceId): the index of the
\* first such resource, 0 when there is none.
Find(resources, resourceId) ==
  LET at == {i \in 1..Len(resources) : resources[i].uri = resourceId}
  IN IF at = {} THEN 0 ELSE CHOOSE i \in at : \A j \in at : i <= j

\* An error thrown by getResource() or getSchema(): its class, its
\* message, its cause and the keys of its details.
ClientError(type, message, cause, details) ==
  [type |-> type, message |-> message, cause |-> cause, details |-> details]

NoClientError == ClientError("none", <<>>, NoThrown, {})

NoValue == [none |-> TRUE]

\* new Error(`Resource ${resourceId} not found`), line 379.
NotFound(resourceId) ==
  [isError |-> TRUE, name |-> "Error",
   message |-> <<"Resource">> \o resourceId \o <<"not found">>]

\* The catch block of getResource(), lines 390-423.
CatchGetResource(e, resourceId) ==
  IF e.isError
  THEN IF e.name = "AbortError" \/ Includes(ToLowerCase(e.message), "timeout")
       THEN ClientError("TimeoutError",
                        <<"Get resource">> \o resourceId \o <<"timed out">>,
                        e, {"resourceId"})
       ELSE IF \/ Includes(ToLowerCase(e.message), "401")
               \/ Includes(ToLowerCase(e.message), "unauthorized")
       THEN ClientError("AuthenticationError",
                        <<"Authentication failed">> \o resourceId,
                        e, {"resourceId"})
       ELSE IF \/ Includes(ToLowerCase(e.message), "404")
               \/ Includes(ToLowerCase(e.message), "not found")
       THEN ClientError("ConnectionError",
                        <<"Resource">> \o resourceId \o <<"not found">>,
                        e, {"resourceId"})
       ELSE ClientError("ConnectionError",
                        <<"Failed to get resource">> \o resourceId \o e.message,
                        e, {"resourceId"})
  ELSE ClientError("ConnectionError",
                   <<"Failed to get resource">> \o resourceId \o <<e.name>>,
                   NoThrown, {"resourceId"})

\* The catch block of getSchema(), lines 470-490.
CatchGetSchema(e) ==
  IF e.isError
  THEN IF e.name = "AbortError" \/ Includes(ToLowerCase(e.message), "timeout")
       THEN ClientError("TimeoutError", <<"Get schema timed out">>, e, {})
       ELSE IF \/ Includes(ToLowerCase(e.message), "401")
               \/ Includes(ToLowerCase(e.message), "unauthorized")
       THEN ClientError("AuthenticationError", <<"Authentication failed">>,
                        e, {})
       ELSE ClientError("ConnectionError",
                        <<"Failed to get schema">> \o e.message, e, {})
  ELSE ClientError("ConnectionError", <<"Failed to get schema">> \o <<e.name>>,
                   NoThrown, {})

\* A getResource() or a getSchema() that has called nothing yet, and what
\* the calls it makes will do.
InitClient(method, resourceId, toolsReply, resourcesReply) ==
  [ method         |-> method,
    phase          |-> "pending",  \* "tools listed", "resolved", "rejected"
    resourceId     |-> resourceId,
    toolsReply     |-> toolsReply,
    resourcesReply |-> resourcesReply,
    called         |-> {},         \* the calls of the typed client made
    value          |-> NoValue,
    error          |-> NoClientError ]

Resolve(c, value) == [c EXCEPT !.phase = "resolved", !.value = value]

Reject(c, error) == [c EXCEPT !.phase = "rejected", !.error = error]

\* Lines 381-388: the resource in the format of the client.
MappedResource(resource) ==
  [ id       |-> resource.uri,
    type     |-> TypeOf(resource.mimeType),
    metadata |-> [mimeType |-> resource.mimeType] ]

\* Lines 374-388: with the list in hand, getResource() returns the
\* resource of that uri, or throws inside its own try block.
Found(c) ==
  LET i == Find(c.resourcesReply.list, c.resourceId)
  IN IF i = 0
     THEN Reject(c, CatchGetResource(NotFound(c.resourceId), c.resourceId))
     ELSE Resolve(c, MappedResource(c.resourcesReply.list[i]))

\* Lines 448-468: the schema made of the two lists.
Schema(tools, resources) ==
  [ tools     |-> [i \in 1..Len(tools) |-> [name |-> tools[i].name]],
    resources |-> [i \in 1..Len(resources) |->
                     [type |-> TypeOf(resources[i].mimeType)]] ]

\* getSchema() when listResources() throws: the catch block, and nothing
\* of the tools listed is returned.
ResourcesFailed_Partial(c) ==
  Resolve(c, Schema(c.toolsReply.list, <<>>))

ResourcesFailed(c) ==
  Reject(c, CatchGetSchema(c.resourcesReply.thrown))

ClientUnchanged ==
  UNCHANGED <<options, serialized, m, lastAction, http, sse, tool, helper>>

\* getResource(): listResources() resolves.
GetResourceListed ==
  /\ testClient.method = "getResource"
  /\ testClient.phase = "pending"
  /\ testClient.resourcesReply.ok
  /\ testClient' = Found([testClient EXCEPT !.called = {"listResources"}])
  /\ ClientUnchanged

\* getResource(): listResources() throws.
GetResourceThrows ==
  /\ testClient.method = "getResource"
  /\ testClient.phase = "pending"
  /\ ~testClient.resourcesReply.ok
  /\ testClient' =
       Reject([testClient EXCEPT !.called = {"listResources"}],
              CatchGetResource(testClient.resourcesReply.thrown,
                               testClient.resourceId))
  /\ ClientUnchanged

\* getSchema(): listTools() resolves, and listResources() is called.
GetSchemaToolsListed ==
  /\ testClient.method = "getSchema"
  /\ testClient.phase = "pending"
  /\ testClient.toolsReply.ok
  /\ testClient' = [testClient EXCEPT !.phase = "tools listed",
                                      !.called = {"listTools"}]
  /\ ClientUnchanged

\* getSchema(): listTools() throws; listResources() is not called.
GetSchemaToolsThrow ==
  /\ testClient.method = "getSchema"
  /\ testClient.phase = "pending"
  /\ ~testClient.toolsReply.ok
  /\ testClient' = Reject([testClient EXCEPT !.called = {"listTools"}],
                          CatchGetSchema(testClient.toolsReply.thrown))
  /\ ClientUnchanged

\* getSchema(): listResources() resolves and the schema is returned.
GetSchemaResourcesListed ==
  /\ testClient.method = "getSchema"
  /\ testClient.phase = "tools listed"
  /\ testClient.resourcesReply.ok
  /\ testClient' =
       Resolve([testClient EXCEPT !.called = @ \cup {"listResources"}],
               Schema(testClient.toolsReply.list,
                      testClient.resourcesReply.list))
  /\ ClientUnchanged

\* getSchema(): listResources() throws.
GetSchemaResourcesThrow ==
  /\ testClient.method = "getSchema"
  /\ testClient.phase = "tools listed"
  /\ ~testClient.resourcesReply.ok
  /\ testClient' =
       ResourcesFailed([testClient EXCEPT !.called = @ \cup {"listResources"}])
  /\ ClientUnchanged

Replies(lists) == {Resolves(l) : l \in lists} \cup {Throws(e) : e \in Thrown}

ClientInit ==
  /\ NoManager
  /\ http = NoHttp
  /\ sse = NoSse
  /\ tool = NoTool
  /\ helper = NoHelper
  /\ testClient \in
       {InitClient("getResource", id, NoReply, r) :
          id \in Ids, r \in Replies(ResourceLists)}
       \cup {InitClient("getSchema", <<>>, t, r) :
               t \in Replies(ToolLists), r \in Replies(ResourceLists)}

ClientNext ==
  \/ GetResourceListed
  \/ GetResourceThrows
  \/ GetSchemaToolsListed
  \/ GetSchemaToolsThrow
  \/ GetSchemaResourcesListed
  \/ GetSchemaResourcesThrow

ClientSpec == ClientInit /\ [][ClientNext]_vars

---------------------------------------------------------------------------
(* Properties of getResource() and getSchema()                             *)

\* The call has returned or thrown.
ClientSettled == testClient.phase \in {"resolved", "rejected"}

\* C21: a getResource(id) whose id is not in the list the server returned
\* fails with a ConnectionError whose message says "not found", whatever
\* the id is made of; it returns nothing and fails with no other class.
C21_AbsentIdIsConnectionError ==
  /\ testClient.method = "getResource"
  /\ ClientSettled
  /\ testClient.resourcesReply.ok
  /\ Find(testClient.resourcesReply.list, testClient.resourceId) = 0
  => /\ testClient.phase = "rejected"
     /\ testClient.value = NoValue
     /\ testClient.error.type = "ConnectionError"
     /\ Includes(testClient.error.message, "not found")

\* The classes of the errors of the client.
Classified == {"TimeoutError", "AuthenticationError", "ConnectionError"}

\* The class the thrown value of a failed call stands for.
ClassOf(e) ==
  IF TimeoutIndicated(e) THEN "TimeoutError"
  ELSE IF AuthIndicated(e) THEN "AuthenticationError"
  ELSE "ConnectionError"

\* The reply of the first call of getSchema() that failed.
FailedReply ==
  IF testClient.toolsReply.ok THEN testClient.resourcesReply
  ELSE testClient.toolsReply

\* C22: getSchema() returns a schema only when listTools() and
\* listResources() both succeeded, and then it is the schema of the two
\* whole lists; when one of them failed it rejects with one error of the
\* three classes, the class and the cause being those of the call that
\* failed, and it returns nothing.
C22_NoPartialSchema ==
  testClient.method = "getSchema" /\ ClientSettled =>
    IF testClient.toolsReply.ok /\ testClient.resourcesReply.ok
    THEN /\ testClient.phase = "resolved"
         /\ testClient.error = NoClientError
         /\ Len(testClient.value.tools) = Len(testClient.toolsReply.list)
         /\ Len(testClient.value.resources)
              = Len(testClient.resourcesReply.list)
    ELSE /\ testClient.phase = "rejected"
         /\ testClient.value = NoValue
         /\ testClient.error.type \in Classified
         /\ testClient.error.type = ClassOf(FailedReply.thrown)
         /\ FailedReply.thrown.isError
              => testClient.error.cause = FailedReply.thrown

\* The tools were listed, listResources() failed with a 401, and
\* getSchema() threw an AuthenticationError.
C22_Witness ==
  /\ testClient.method = "getSchema"
  /\ testClient.phase = "rejected"
  /\ testClient.called = {"listTools", "listResources"}
  /\ testClient.toolsReply.ok
  /\ testClient.toolsReply.list # <<>>
  /\ testClient.error.type = "AuthenticationError"

\* C23: in every schema getSchema() returns no two tools have the same
\* name and no two resources the same type, whatever resources the server
\* lists.
C23_SchemaEntriesUnique ==
  testClient.method = "getSchema" /\ testClient.phase = "resolved" =>
    /\ \A i, j \in 1..Len(testClient.value.tools) :
         testClient.value.tools[i].name = testClient.value.tools[j].name
           => i = j
    /\ \A i, j \in 1..Len(testClient.value.resources) :
         testClient.value.resources[i].type = testClient.value.resources[j].type
           => i = j

---------------------------------------------------------------------------
(* AsyncHelpers.waitForCondition(), src/utils/async.ts lines 152-175       *)

\* The longest timeout and the longest interval, in steps of TimeStep, and
\* the latest evaluation on which the condition first holds.
MaxWaitSteps == 3

MaxIntervalSteps == 2

MaxEvals == 3

\* options.timeout and options.interval, both given and positive.
WaitTimeouts == {i * TimeStep : i \in 1..MaxWaitSteps}

Intervals == {i * TimeStep : i \in 1..MaxIntervalSteps}

\* options.timeoutMessage: not given, or given.
TimeoutMessages == {"", "custom"}

\* How long an evaluation of the condition, or a call of fn, may take, and
\* how long after its delay a setTimeout() callback may run.
EvalTimes == {0, TimeStep}

Lateness == {0, TimeStep}

\* new TimeoutError(message, {details}).
HelperError(type, message, details) ==
  [type |-> type, message |-> message, details |-> details]

NoHelperError == HelperError("none", "", [none |-> TRUE])

\* options.timeoutMessage || 'Condition not met within timeout', line 158.
WaitMessage(timeoutMessage) ==
  IF timeoutMessage = "" THEN "Condition not met within timeout"
  ELSE timeoutMessage

\* A waitForCondition() that has read its options and the clock, lines
\* 156-160. The condition first holds on evaluation trueAt, never when
\* trueAt is 0.
InitWait(timeout, interval, timeoutMessage, trueAt) ==
  [ fn             |-> "waitForCondition",
    timeout        |-> timeout,
    interval       |-> interval,
    timeoutMessage |-> timeoutMessage,
    trueAt         |-> trueAt,
    pc             |-> "test",  \* "evaluating", "sleeping", "resolved",
                                \* "rejected"
    elapsed        |-> 0,       \* Date.now() - startTime
    testedAt       |-> 0,       \* what the last test of the loop read
    log            |-> <<>>,    \* the evaluations and the sleeps, in order
    error          |-> NoHelperError ]

\* Date.now() - startTime < timeout, line 162, and the same with <=.
WithinTimeout_Inclusive(h) == h.elapsed <= h.timeout

WithinTimeout(h) == h.elapsed < h.timeout

\* if (result) return, line 165, and a return whatever the result.
Done_Always(result) == TRUE

Done(result) == result

\* The evaluations made so far.
Count(log, what) == Cardinality({i \in 1..Len(log) : log[i] = what})

HelperUnchanged ==
  UNCHANGED <<options, serialized, m, lastAction, http, sse, tool, testClient>>

\* The test of the while loop, line 162: the condition is called, line
\* 163, or the TimeoutError is thrown, lines 172-174.
WaitTest ==
  /\ helper.fn = "waitForCondition"
  /\ helper.pc = "test"
  /\ helper' =
       IF WithinTimeout(helper)
       THEN [helper EXCEPT !.pc = "evaluating",
                           !.testedAt = helper.elapsed,
                           !.log = Append(@, "eval")]
       ELSE [helper EXCEPT !.pc = "rejected",
                           !.testedAt = helper.elapsed,
                           !.error =
                             HelperError("TimeoutError",
                                         WaitMessage(helper.timeoutMessage),
                                         [timeout  |-> helper.timeout,
                                          interval |-> helper.interval])]
  /\ HelperUnchanged

\* The condition settles after some time, lines 163-169: on true the call
\* returns, otherwise the timer of the sleep is set.
WaitEvaluated(took) ==
  /\ helper.fn = "waitForCondition"
  /\ helper.pc = "evaluating"
  /\ helper' =
       [helper EXCEPT
          !.elapsed = @ + took,
          !.pc = IF Done(Count(helper.log, "eval") = helper.trueAt)
                 THEN "resolved" ELSE "sleeping"]
  /\ HelperUnchanged

\* The timer of the sleep runs out, line 169, on time or late.
WaitWakes(late) ==
  /\ helper.fn = "waitForCondition"
  /\ helper.pc = "sleeping"
  /\ helper' = [helper EXCEPT !.elapsed = @ + helper.interval + late,
                              !.log = Append(@, "sleep"),
                              !.pc = "test"]
  /\ HelperUnchanged

---------------------------------------------------------------------------
(* AsyncHelpers.pollUntil(), lines 204-232                                 *)

MaxAttempts == 3

\* options.timeoutMessage || 'Maximum polling attempts reached', line 211.
PollMessage(timeoutMessage) ==
  IF timeoutMessage = "" THEN "Maximum polling attempts reached"
  ELSE timeoutMessage

\* A pollUntil() that has read its options, lines 209-213. The predicate
\* holds of the result of call okAt and of no earlier one, of none when
\* okAt is 0. The result of call k is k.
InitPoll(maxAttempts, interval, timeoutMessage, okAt) ==
  [ fn             |-> "pollUntil",
    maxAttempts    |-> maxAttempts,
    interval       |-> interval,
    timeoutMessage |-> timeoutMessage,
    okAt           |-> okAt,
    pc             |-> "test",  \* "calling", "sleeping", "returned",
                                \* "rejected"
    attempts       |-> 0,
    elapsed        |-> 0,       \* the time since the call
    log            |-> <<>>,    \* the calls of fn and the sleeps, in order
    result         |-> 0,       \* what was returned
    error          |-> NoHelperError ]

\* attempts < maxAttempts, line 224, and a sleep after every attempt.
SleepsAfter_Always(h) == TRUE

SleepsAfter(h) == h.attempts < h.maxAttempts

\* The test of the while loop, line 215: attempts++ and fn is called,
\* lines 216-218, or the TimeoutError is thrown, lines 229-231.
PollTest ==
  /\ helper.fn = "pollUntil"
  /\ helper.pc = "test"
  /\ helper' =
       IF helper.attempts < helper.maxAttempts
       THEN [helper EXCEPT !.pc = "calling",
                           !.attempts = @ + 1,
                           !.log = Append(@, "call")]
       ELSE [helper EXCEPT !.pc = "rejected",
                           !.error =
                             HelperError("TimeoutError",
                                         PollMessage(helper.timeoutMessage),
                                         [maxAttempts |-> helper.maxAttempts,
                                          interval    |-> helper.interval,
                                          attempts    |-> helper.attempts])]
  /\ HelperUnchanged

\* fn resolves after some time, lines 218-226: the result is returned when
\* the predicate holds of it; otherwise the timer of the sleep is set,
\* unless this was the last attempt.
PollResult(took) ==
  /\ helper.fn = "pollUntil"
  /\ helper.pc = "calling"
  /\ helper' =
       LET calls == Count(helper.log, "call")
       IN IF calls = helper.okAt
          THEN [helper EXCEPT !.elapsed = @ + took,
                              !.pc = "returned",
                              !.result = calls]
          ELSE [helper EXCEPT !.elapsed = @ + took,
                              !.pc = IF SleepsAfter(helper)
                                     THEN "sleeping" ELSE "test"]
  /\ HelperUnchanged

\* The timer of the sleep runs out, line 225, on time or late.
PollWakes(late) ==
  /\ helper.fn = "pollUntil"
  /\ helper.pc = "sleeping"
  /\ helper' = [helper EXCEPT !.elapsed = @ + helper.interval + late,
                              !.log = Append(@, "sleep"),
                              !.pc = "test"]
  /\ HelperUnchanged

---------------------------------------------------------------------------
(* AsyncHelpers.collectStreamResponses(), lines 260-302                    *)

\* The largest options.maxItems; a stream yields up to one item more.
MaxItems == 2

\* A number as a value of the details of an error, told from an array.
JsNumber(n) == [type |-> "number", value |-> n]

\* A collectStreamResponses() that has set its timer and called next() on
\* the stream, lines 264-286. The stream yields the items 1..streamLen,
\* each at some time, and then ends. A maxItems of 0 stands for the option
\* that is 0 or not given: options.maxItems || Number.MAX_SAFE_INTEGER.
InitCollect(timeout, maxItems, throwOnTimeout, streamLen) ==
  [ fn             |-> "collectStreamResponses",
    timeout        |-> timeout,
    maxItems       |-> maxItems,
    throwOnTimeout |-> throwOnTimeout,  \* options.throwOnTimeout !== false
    streamLen      |-> streamLen,
    results        |-> <<>>,
    requested      |-> 1,          \* the calls of next() made
    consumer       |-> "awaiting", \* the for await loop; then "finished"
    closed         |-> FALSE,      \* stream.return() was called
    timer          |-> "armed",    \* then "fired" or "cleared"
    race           |-> "pending",  \* then "resolved" or "rejected"
    returned       |-> <<>>,
    atTimeout      |-> <<>>,       \* the results when the timer fired
    error          |-> NoHelperError ]

\* results.length >= maxItems, line 278, and a loop that never breaks.
Full_Never(h, results) == FALSE

Full(h, results) == h.maxItems # 0 /\ Len(results) >= h.maxItems

\* The loop is over, so the first promise of the race is fulfilled: if
\* the race is not settled yet, results is returned, line 296, through
\* the finally block, lines 297-301.
Collected(h) ==
  IF h.race = "pending"
  THEN [h EXCEPT !.consumer = "finished",
                 !.race = "resolved",
                 !.returned = h.results,
                 !.timer = IF @ = "armed" THEN "cleared" ELSE @]
  ELSE [h EXCEPT !.consumer = "finished"]

\* The stream yields its next item, lines 275-281: it is pushed, and the
\* loop breaks, which closes the stream, or asks for the next one.
CollectItem ==
  /\ helper.fn = "collectStreamResponses"
  /\ helper.consumer = "awaiting"
  /\ helper.requested <= helper.streamLen
  /\ helper' =
       LET results == Append(helper.results, helper.requested)
       IN IF Full(helper, results)
          THEN Collected([helper EXCEPT !.results = results,
                                        !.closed = TRUE])
          ELSE [helper EXCEPT !.results = results,
                              !.requested = @ + 1]
  /\ HelperUnchanged

\* The stream ends, line 275.
CollectEnd ==
  /\ helper.fn = "collectStreamResponses"
  /\ helper.consumer = "awaiting"
  /\ helper.requested > helper.streamLen
  /\ helper' = Collected(helper)
  /\ HelperUnchanged

\* The timer runs out, lines 286-292: with throwOnTimeout the race is
\* rejected and the finally block runs, while the loop goes on; without it
\* nothing happens.
CollectTimeout ==
  /\ helper.fn = "collectStreamResponses"
  /\ helper.timer = "armed"
  /\ helper' =
       IF helper.throwOnTimeout
       THEN [helper EXCEPT
               !.timer = "fired",
               !.race = "rejected",
               !.atTimeout = helper.results,
               !.error =
                 HelperError("TimeoutError", "Stream collection timed out",
                             [timeout        |-> JsNumber(helper.timeout),
                              collectedItems |->
                                JsNumber(Len(helper.results))])]
       ELSE [helper EXCEPT !.timer = "fired",
                           !.atTimeout = helper.results]
  /\ HelperUnchanged

---------------------------------------------------------------------------
(* AsyncHelpers.retry(), lines 358-392                                     *)

\* What fn throws on a call: an Error or a value that is no Error, told
\* from what it throws on another call by the number of the call.
Failure(isError, at) == [isError |-> isError, at |-> at, message |-> "fn"]

\* lastError before any failure: undefined.
NoFailure == [isError |-> FALSE, at |-> 0, message |-> "undefined"]

\* A retry() that has read its options, lines 362-367. fn succeeds on call
\* okAt and fails on every earlier one, on every call when okAt is 0. The
\* value of call k is k.
InitRetry(maxAttempts, interval, backoff, okAt) ==
  [ fn          |-> "retry",
    maxAttempts |-> maxAttempts,
    interval    |-> interval,
    backoff     |-> backoff,    \* options.backoff !== false
    okAt        |-> okAt,
    pc          |-> "test",     \* "calling", "sleeping", "returned",
                                \* "rejected"
    attempts    |-> 0,
    lastError   |-> NoFailure,
    log         |-> <<>>,       \* the calls of fn and the delays slept
    result      |-> 0,
    error       |-> NoFailure ]

\* A call of fn and a sleep, as entries of the log.
Called == [op |-> "call", ms |-> 0]

Slept(ms) == [op |-> "sleep", ms |-> ms]

\* The delay of lines 378-380, and one without the backoff.
Delay_Flat(h) == h.interval

Delay(h) ==
  IF h.backoff THEN h.interval * 2 ^ (h.attempts - 1) ELSE h.interval

\* Lines 387-391: what is thrown when the attempts are used up.
Rethrown(lastError) ==
  IF lastError.isError THEN lastError
  ELSE [isError |-> TRUE, at |-> 0, message |-> "All retry attempts failed"]

\* The test of the while loop, line 369: attempts++ and fn is called,
\* lines 370-373, or the last error is thrown, lines 387-391.
RetryTest ==
  /\ helper.fn = "retry"
  /\ helper.pc = "test"
  /\ helper' =
       IF helper.attempts < helper.maxAttempts
       THEN [helper EXCEPT !.pc = "calling",
                           !.attempts = @ + 1,
                           !.log = Append(@, Called)]
       ELSE [helper EXCEPT !.pc = "rejected",
                           !.error = Rethrown(helper.lastError)]
  /\ HelperUnchanged

\* fn resolves and its value is returned, line 373.
RetrySucceeds ==
  /\ helper.fn = "retry"
  /\ helper.pc = "calling"
  /\ helper.attempts = helper.okAt
  /\ helper' = [helper EXCEPT !.pc = "returned", !.result = helper.attempts]
  /\ HelperUnchanged

\* fn throws, lines 374-384: the value is kept, and the timer of the
\* sleep is set unless this was the last attempt.
RetryFails(isError) ==
  /\ helper.fn = "retry"
  /\ helper.pc = "calling"
  /\ helper.attempts # helper.okAt
  /\ helper' =
       IF helper.attempts < helper.maxAttempts
       THEN [helper EXCEPT !.lastError = Failure(isError, helper.attempts),
                           !.log = Append(@, Slept(Delay(helper))),
                           !.pc = "sleeping"]
       ELSE [helper EXCEPT !.lastError = Failure(isError, helper.attempts),
                           !.pc = "test"]
  /\ HelperUnchanged

\* The timer of the sleep runs out, line 382.
RetryWakes ==
  /\ helper.fn = "retry"
  /\ helper.pc = "sleeping"
  /\ helper' = [helper EXCEPT !.pc = "test"]
  /\ HelperUnchanged

---------------------------------------------------------------------------
(* The calls of the helpers                                                *)

AsyncInit ==
  /\ NoManager
  /\ http = NoHttp
  /\ sse = NoSse
  /\ tool = NoTool
  /\ testClient = NoClient
  /\ helper \in
       {InitWait(t, i, msg, k) :
          t \in WaitTimeouts, i \in Intervals, msg \in TimeoutMessages,
          k \in 0..MaxEvals}
       \cup {InitPoll(n, i, msg, k) :
               n \in 1..MaxAttempts, i \in Intervals,
               msg \in TimeoutMessages, k \in 0..MaxAttempts}
       \cup {InitCollect(t, n, b, len) :
               t \in WaitTimeouts, n \in 0..MaxItems, b \in BOOLEAN,
               len \in 0..(MaxItems + 1)}
       \cup {InitRetry(n, i, b, k) :
               n \in 1..MaxAttempts, i \in Intervals, b \in BOOLEAN,
               k \in 0..MaxAttempts}

AsyncNext ==
  \/ WaitTest
  \/ \E took \in EvalTimes : WaitEvaluated(took)
  \/ \E late \in Lateness : WaitWakes(late)
  \/ PollTest
  \/ \E took \in EvalTimes : PollResult(took)
  \/ \E late \in Lateness : PollWakes(late)
  \/ CollectItem
  \/ CollectEnd
  \/ CollectTimeout
  \/ RetryTest
  \/ RetrySucceeds
  \/ \E isError \in BOOLEAN : RetryFails(isError)
  \/ RetryWakes

AsyncSpec == AsyncInit /\ [][AsyncNext]_vars

---------------------------------------------------------------------------
(* Properties of the helpers                                               *)

\* k times `a` with a `b` between every two of them.
Alternating(a, b, k) == [i \in 1..(2 * k - 1) |-> IF i % 2 = 1 THEN a ELSE b]

Waiting == helper.fn = "waitForCondition"

WaitSettled == Waiting /\ helper.pc \in {"resolved", "rejected"}

\* C26 as stated: when the condition first holds on evaluation k and
\* (k-1)*interval is less than timeout, the call resolves after exactly k
\* evaluations with a sleep between every two, no earlier than
\* (k-1)*interval after the call.
C26_ResolvesOnKthEvaluation ==
  /\ WaitSettled
  /\ helper.trueAt >= 1
  /\ (helper.trueAt - 1) * helper.interval < helper.timeout
  => /\ helper.pc = "resolved"
     /\ helper.log = Alternating("eval", "sleep", helper.trueAt)
     /\ helper.elapsed >= (helper.trueAt - 1) * helper.interval

\* C26: when the condition first holds on evaluation k, the call resolves
\* exactly when the clock read less than timeout at every test of the loop
\* before the first k evaluations, the time read being that of the sleeps,
\* each interval or more, and of the evaluations made so far. It then
\* resolves after exactly k evaluations with a sleep between every two, no
\* earlier than (k-1)*interval after the call. Otherwise it throws with
\* fewer than k evaluations made, at a test that read timeout or more;
\* when nothing but the sleeps took time, that happens only if
\* (k-1)*interval is timeout or more.
C26_ResolvesWhenClockAllows ==
  /\ Waiting /\ helper.pc = "evaluating" => helper.testedAt < helper.timeout
  /\ WaitSettled /\ helper.trueAt >= 1 =>
       IF helper.pc = "resolved"
       THEN /\ helper.log = Alternating("eval", "sleep", helper.trueAt)
            /\ helper.testedAt < helper.timeout
            /\ helper.elapsed >= (helper.trueAt - 1) * helper.interval
       ELSE /\ Count(helper.log, "eval") < helper.trueAt
            /\ Count(helper.log, "sleep") = Count(helper.log, "eval")
            /\ helper.testedAt >= helper.timeout
            /\ helper.testedAt = Count(helper.log, "sleep") * helper.interval
                 => (helper.trueAt - 1) * helper.interval >= helper.timeout

\* The condition held on the third evaluation, and the call resolved
\* after three evaluations and two sleeps.
C26_Witness ==
  /\ Waiting
  /\ helper.pc = "resolved"
  /\ helper.trueAt >= 3
  /\ Count(helper.log, "sleep") = helper.trueAt - 1

\* C27: an evaluation starts only when the clock reads less than timeout;
\* when the condition never holds the call does not resolve, and it throws
\* after one evaluation or more a TimeoutError with the message given in
\* the options, the default one when none was given, and the details
\* {timeout, interval}.
C27_TimeoutAfterAtLeastOneEvaluation ==
  /\ Waiting /\ helper.pc = "evaluating" => helper.elapsed < helper.timeout
  /\ Waiting /\ helper.trueAt = 0 => helper.pc # "resolved"
  /\ Waiting /\ helper.trueAt = 0 /\ helper.pc = "rejected" =>
       /\ Count(helper.log, "eval") >= 1
       /\ helper.testedAt >= helper.timeout
       /\ helper.error.type = "TimeoutError"
       /\ helper.error.message =
            IF helper.timeoutMessage = ""
            THEN "Condition not met within timeout"
            ELSE helper.timeoutMessage
       /\ helper.error.details =
            [timeout |-> helper.timeout, interval |-> helper.interval]

\* The condition never held, and after two evaluations or more the call
\* threw with the message given.
C27_Witness ==
  /\ Waiting
  /\ helper.pc = "rejected"
  /\ helper.trueAt = 0
  /\ helper.timeoutMessage = "custom"
  /\ Count(helper.log, "eval") >= 2

Polling == helper.fn = "pollUntil"

\* C28: when the predicate holds of no result, pollUntil() throws after
\* exactly maxAttempts calls of fn with a sleep of interval between every
\* two and none after the last, and the details of its TimeoutError carry
\* attempts = maxAttempts; when it first holds of result k, that result is
\* returned after exactly k calls.
C28_ExactlyMaxAttemptsCalls ==
  /\ Polling => Count(helper.log, "call") <= helper.maxAttempts
  /\ Polling /\ helper.pc \in {"returned", "rejected"} =>
       IF helper.okAt = 0
       THEN /\ helper.pc = "rejected"
            /\ helper.log = Alternating("call", "sleep", helper.maxAttempts)
            /\ helper.elapsed >= (helper.maxAttempts - 1) * helper.interval
            /\ helper.error.type = "TimeoutError"
            /\ helper.error.details.attempts = helper.maxAttempts
            /\ helper.error.details.maxAttempts = helper.maxAttempts
       ELSE IF helper.okAt <= helper.maxAttempts
       THEN /\ helper.pc = "returned"
            /\ helper.result = helper.okAt
            /\ helper.log = Alternating("call", "sleep", helper.okAt)
       ELSE helper.pc = "rejected"

\* The predicate held of no result, and pollUntil() threw after three
\* calls or more.
C28_Witness ==
  /\ Polling
  /\ helper.pc = "rejected"
  /\ helper.okAt = 0
  /\ helper.maxAttempts >= 3
  /\ helper.error.details.attempts = helper.maxAttempts

Collecting == helper.fn = "collectStreamResponses"

\* C29: with maxItems = m, m at least 1, on a stream of more than m
\* items, no item after the m-th is asked of the stream, which is closed
\* once the m-th is collected, and what the call returns is the first m
\* items in order.
C29_StopsAtMaxItems ==
  Collecting /\ helper.maxItems >= 1 /\ helper.streamLen > helper.maxItems =>
    /\ helper.requested <= helper.maxItems
    /\ Len(helper.results) <= helper.maxItems
    /\ Len(helper.results) = helper.maxItems
         => helper.closed /\ helper.consumer = "finished"
    /\ helper.race = "resolved"
         => helper.returned = [i \in 1..helper.maxItems |-> i]

\* The first two items of a longer stream were returned.
C29_Witness ==
  /\ Collecting
  /\ helper.race = "resolved"
  /\ helper.maxItems >= 2
  /\ helper.streamLen > helper.maxItems
  /\ Len(helper.returned) = helper.maxItems
  /\ helper.closed

\* C30: when the timer runs out with throwOnTimeout, the stream neither
\* ended nor at maxItems, the call rejects with a TimeoutError that
\* carries the items collected so far.
C30_TimeoutCarriesItems ==
  Collecting /\ helper.timer = "fired" /\ helper.throwOnTimeout =>
    /\ helper.race = "rejected"
    /\ helper.error.type = "TimeoutError"
    /\ \E key \in DOMAIN helper.error.details :
         /\ helper.error.details[key].type = "array"
         /\ helper.error.details[key].value = helper.atTimeout

\* C31: when the timer runs out without throwOnTimeout, the stream neither
\* ended nor at maxItems, the call stops there and returns the items
\* collected so far.
C31_SilentStopAtDeadline ==
  Collecting /\ helper.timer = "fired" /\ ~helper.throwOnTimeout =>
    /\ helper.race = "resolved"
    /\ helper.returned = helper.atTimeout

Retrying == helper.fn = "retry"

\* The delay slept after failure i of a retry().
DelayAfter(i) ==
  IF helper.backoff THEN helper.interval * 2 ^ (i - 1) ELSE helper.interval

\* k calls of fn with, after call i < k, a sleep of the delay of failure i.
RetryLog(k) ==
  [i \in 1..(2 * k - 1) |->
     IF i % 2 = 1 THEN Called ELSE Slept(DelayAfter(i \div 2))]

\* C32: retry() calls fn until its first success or maxAttempts calls:
\* when fn fails k-1 times and then succeeds, k at most maxAttempts, fn is
\* called exactly k times and the value of call k is returned; after
\* failure i it sleeps interval*2^(i-1) with backoff, interval without;
\* when every attempt fails fn is called exactly maxAttempts times, and
\* there is no sleep after the last attempt.
C32_RetryUntilFirstSuccess ==
  /\ Retrying => helper.attempts <= helper.maxAttempts
  /\ Retrying /\ helper.pc \in {"returned", "rejected"} =>
       IF helper.okAt \in 1..helper.maxAttempts
       THEN /\ helper.pc = "returned"
            /\ helper.result = helper.okAt
            /\ helper.log = RetryLog(helper.okAt)
       ELSE /\ helper.pc = "rejected"
            /\ helper.log = RetryLog(helper.maxAttempts)

\* fn failed twice and succeeded on its third call, with backoff.
C32_Witness ==
  /\ Retrying
  /\ helper.pc = "returned"
  /\ helper.backoff
  /\ helper.okAt >= 3
  /\ Len(helper.log) = 2 * helper.okAt - 1

\* C33: when every attempt failed, what retry() throws is the value fn
\* threw on its last attempt, as it was thrown, Error or not.
C33_RethrowsLastVerbatim ==
  Retrying /\ helper.pc = "rejected" =>
    /\ helper.lastError.at = helper.maxAttempts
    /\ helper.error = helper.lastError

\* C40: once the call has settled, by the end of the stream, at maxItems
\* or by the timer, no further item is asked of the stream and the
\* collected items no longer change.
C40_NothingAfterSettling ==
  [][Collecting /\ helper.race # "pending" =>
       /\ helper'.requested = helper.requested
       /\ helper'.results = helper.results]_vars

====
